---------------------------- MODULE Spec2Model ----------------------------
(***************************************************************************)
(* A model of the context-aware edit engine of AetherCode's ChatEditor     *)
(* (src/frontend/src/components/ChatEditor.tsx, the component that starts  *)
(* at line 589): computeDiff, applySearchReplace, applyEdit,               *)
(* extractCodeFromMessage and the permission gate in handleSendMessage.    *)
(*                                                                         *)
(* Texts are sequences of one-character strings, so that split, join,      *)
(* includes, trim and replace are computed the way the JavaScript string   *)
(* methods compute them.                                                   *)
(***************************************************************************)
EXTENDS Integers, Sequences, FiniteSets, TLC

VARIABLES
    \* ---- computeDiff (one call, its loop unrolled) ----
    oldText, newText,       \* the two arguments
    oldLines, newLines,     \* oldText.split('\n'), newText.split('\n')
    di, dj,                 \* the cursors i and j (0-based, as in the code)
    diff,                   \* the DiffLine[] built so far
    dpc,                    \* "idle" | "loop" | "done"
    \* ---- applySearchReplace (one call, its outer loop unrolled) ----
    currentCode, editBlock, \* the two arguments
    lines,                  \* editBlock.split('\n')
    pi,                     \* the outer cursor i (0-based)
    result,                 \* the running copy of the content
    searchText, replaceText,\* the locals of the block processed last
    prevResult,             \* result as it was before the block processed last
    outcome,                \* branch taken by the block processed last
    blockNo,                \* number of blocks processed so far
    ppc,                    \* "idle" | "loop" | "done"
    \* ---- the ChatEditor session (React state of the component) ----
    nodes,                  \* the FileNode objects ever created: id -> [path, content]
    files,                  \* state files: the tree's file nodes, in tree order
    selectedFile,           \* state selectedFile: Null or Some(node id)
    editContent,            \* state editContent: the editor buffer
    chatMessages,           \* state chatMessages
    chatInput,              \* state chatInput
    isTyping,               \* state isTyping
    isUploading,            \* state isUploading
    autoEditMode,           \* state autoEditMode: "ask" | "always"
    storedMode,             \* localStorage 'auto_edit_mode': Null or Some(mode)
    pendingCode,            \* state pendingCode: Null or Some(text)
    credits,                \* prop credits (state of App)
    model,                  \* prop model
    apiKey,                 \* prop apiKey (the key App holds for the model's source)
    session,                \* ChatEditor instances mounted so far; is one mounted now
    inflight,               \* the suspended handleSendMessage calls, oldest first
    uploading,              \* the suspended handleFolderUpload calls
    sends,                  \* handleSendMessage calls that got past the empty check
    clicks,                 \* file clicks, mode toggles, editor edits and chat clears so far
    budget,                 \* how many sends, uploads and clicks this run may hold
    \* ---- generateProjectContext (one call, its walk unrolled) ----
    ctxNodes,               \* the argument: the nodes of the tree in walk order
    ctxPos,                 \* number of nodes walk has visited
    structure,              \* the lines of the structure section so far
    contentOverview,        \* the blocks of the contents section so far
    totalContextLength,     \* the local totalContextLength
    cpc,                    \* "idle" | "walk" | "done"
    \* ---- extractCodeFromMessage (one call, its exec loop unrolled) ----
    reContent,              \* the argument content
    reLastIndex,            \* codeBlockRegex.lastIndex
    reLastCode,             \* the local lastCode: Null or Some(text)
    reResult,               \* the value returned: Null or Some(text)
    xpc,                    \* "idle" | "loop" | "done"
    \* ---- handleFolderUpload (one call, one entry per step) ----
    uploadedFiles,          \* e.target.files: the entries, in order
    ui,                     \* the loop index i
    root,                   \* the local root: the nodes created, in creation order
    upFiles,                \* state files, as this call finds and leaves it
    sinceYield,             \* entries processed since the call last suspended
    events,                 \* handlers of other events run while the call was suspended
    upc,                    \* "idle" | "loop" | "yield" | "done" | "failed"
    calls,                  \* the handleFolderUpload calls of one session, in start order
    \* ---- handleScrape, the progress socket and the scraper ----
    isScrapingActive,       \* App state isScrapingActive
    wsRef,                  \* wsRef.current: "none" | "connecting" | "open" | "closed"
    subscribed,             \* progressHandler is registered on scraperEvents
    scraper,                \* scrapeModels: "idle" | "running" | "completed" | "failed"
    emitted,                \* progress events scrapeModels has emitted
    wire,                   \* statuses sent by ws.send that have not reached the client
    request                 \* GET /api/scrape: "none" | "sent" | "served" | "ok" | "failed" | "done"

diffVars == <<oldText, newText, oldLines, newLines, di, dj, diff, dpc>>
patchVars == <<currentCode, editBlock, lines, pi, result, searchText,
               replaceText, prevResult, outcome, blockNo, ppc>>
sessionVars == <<nodes, files, selectedFile, editContent, chatMessages,
                 chatInput, isTyping, isUploading, autoEditMode, storedMode,
                 pendingCode, credits, model, apiKey, session, inflight, uploading,
                 sends,
                 clicks, budget>>
contextVars == <<ctxNodes, ctxPos, structure, contentOverview,
                 totalContextLength, cpc>>
extractVars == <<reContent, reLastIndex, reLastCode, reResult, xpc>>
uploadVars == <<uploadedFiles, ui, root, upFiles, sinceYield, events, upc, calls>>
scrapeVars == <<isScrapingActive, wsRef, subscribed, scraper, emitted, wire, request>>
toolVars == <<contextVars, extractVars, uploadVars, scrapeVars>>
vars == <<diffVars, patchVars, sessionVars, toolVars>>

-----------------------------------------------------------------------------
(* Text primitives: the JavaScript string and array methods the code uses. *)

NL == "\n"

\* the grave accent character, written out
Backtick == "GRAVE"

\* Characters String.prototype.trim strips (those the model's texts can hold).
WhiteSpace == {" ", NL, "\t"}

\* s.substring(from) with a 0-based from: the elements after the first from.
Slice(s, from) == SubSeq(s, from + 1, Len(s))

\* Array.prototype.includes
Includes(s, x) == \E k \in 1..Len(s) : s[k] = x

\* pat occurs in text starting at the 0-based position p
OccursAt(text, pat, p) ==
    /\ p + Len(pat) <= Len(text)
    /\ \A k \in 1..Len(pat) : text[p + k] = pat[k]

\* String.prototype.includes
StrIncludes(text, pat) == \E p \in 0..Len(text) : OccursAt(text, pat, p)

\* String.prototype.indexOf: the least 0-based position, -1 when there is none
IndexOf(text, pat) ==
    IF StrIncludes(text, pat)
    THEN CHOOSE p \in 0..Len(text) :
            /\ OccursAt(text, pat, p)
            /\ \A q \in 0..(p - 1) : ~OccursAt(text, pat, q)
    ELSE -1

\* String.prototype.split('\n'): always at least one line
RECURSIVE SplitFrom(_, _, _)
SplitFrom(text, k, cur) ==
    IF k > Len(text) THEN <<cur>>
    ELSE IF text[k] = NL THEN <<cur>> \o SplitFrom(text, k + 1, <<>>)
    ELSE SplitFrom(text, k + 1, Append(cur, text[k]))

SplitLines(text) == SplitFrom(text, 1, <<>>)

\* Array.prototype.join('\n')
RECURSIVE JoinLines(_)
JoinLines(ls) ==
    IF Len(ls) = 0 THEN <<>>
    ELSE IF Len(ls) = 1 THEN ls[1]
    ELSE ls[1] \o <<NL>> \o JoinLines(Tail(ls))

\* String.prototype.trim
RECURSIVE TrimStart(_)
TrimStart(s) ==
    IF Len(s) > 0 /\ s[1] \in WhiteSpace THEN TrimStart(Tail(s)) ELSE s

RECURSIVE TrimEnd(_)
TrimEnd(s) ==
    IF Len(s) > 0 /\ s[Len(s)] \in WhiteSpace
    THEN TrimEnd(SubSeq(s, 1, Len(s) - 1)) ELSE s

Trim(s) == TrimEnd(TrimStart(s))

-----------------------------------------------------------------------------
(* computeDiff, ChatEditor.tsx 757-775                                     *)

DiffLine(type, content) == [type |-> type, content |-> content]

\* line 763: both cursors in range and the lines are equal
IsUnchangedStep_EmptyIsFalsy(ol, nl, i, j) ==
    /\ i < Len(ol)
    /\ j < Len(nl)
    /\ ol[i + 1] = nl[j + 1]
    /\ ol[i + 1] # <<>>

IsUnchangedStep(ol, nl, i, j) ==
    /\ i < Len(ol)
    /\ j < Len(nl)
    /\ ol[i + 1] = nl[j + 1]

\* line 766: the new line does not occur in the remaining old suffix
IsAddedStep_OnlyWhenOldExhausted(ol, nl, i, j) ==
    /\ j < Len(nl)
    /\ i >= Len(ol)

IsAddedStep_SearchesWholeOld(ol, nl, i, j) ==
    /\ j < Len(nl)
    /\ (i >= Len(ol) \/ ~Includes(ol, nl[j + 1]))

IsAddedStep(ol, nl, i, j) ==
    /\ j < Len(nl)
    /\ (i >= Len(ol) \/ ~Includes(Slice(ol, i), nl[j + 1]))

\* line 769
IsRemovedStep_NeedsNewLine(ol, nl, i, j) == i < Len(ol) /\ j < Len(nl)

IsRemovedStep(ol, nl, i, j) == i < Len(ol)

\* lines 765, 768, 771: the cursors after a step of the given type
DiffAdvance_UnchangedSkipsJ(type, i, j) ==
    CASE type = "unchanged" -> <<i + 1, j>>
      [] type = "added"     -> <<i, j + 1>>
      [] type = "removed"   -> <<i + 1, j>>

DiffAdvance(type, i, j) ==
    CASE type = "unchanged" -> <<i + 1, j + 1>>
      [] type = "added"     -> <<i, j + 1>>
      [] type = "removed"   -> <<i + 1, j>>

\* line 762: the loop condition
DiffLoopCond == di < Len(oldLines) \/ dj < Len(newLines)

DiffPush(type, content) ==
    /\ diff' = Append(diff, DiffLine(type, content))
    /\ di' = DiffAdvance(type, di, dj)[1]
    /\ dj' = DiffAdvance(type, di, dj)[2]
    /\ UNCHANGED <<oldText, newText, oldLines, newLines, dpc>>

\* lines 763-765
DiffUnchanged ==
    /\ dpc = "loop"
    /\ DiffLoopCond
    /\ IsUnchangedStep(oldLines, newLines, di, dj)
    /\ DiffPush("unchanged", oldLines[di + 1])
    /\ UNCHANGED <<patchVars, sessionVars, toolVars>>

\* lines 766-768
DiffAdded ==
    /\ dpc = "loop"
    /\ DiffLoopCond
    /\ ~IsUnchangedStep(oldLines, newLines, di, dj)
    /\ IsAddedStep(oldLines, newLines, di, dj)
    /\ DiffPush("added", newLines[dj + 1])
    /\ UNCHANGED <<patchVars, sessionVars, toolVars>>

\* lines 769-771
DiffRemoved ==
    /\ dpc = "loop"
    /\ DiffLoopCond
    /\ ~IsUnchangedStep(oldLines, newLines, di, dj)
    /\ ~IsAddedStep(oldLines, newLines, di, dj)
    /\ IsRemovedStep(oldLines, newLines, di, dj)
    /\ DiffPush("removed", oldLines[di + 1])
    /\ UNCHANGED <<patchVars, sessionVars, toolVars>>

\* line 774
DiffReturn ==
    /\ dpc = "loop"
    /\ ~DiffLoopCond
    /\ dpc' = "done"
    /\ UNCHANGED <<oldText, newText, oldLines, newLines, di, dj, diff>>
    /\ UNCHANGED <<patchVars, sessionVars, toolVars>>

\* ---- inputs of computeDiff ----

\* most lines of a generated text
MaxLines == 3

\* the lines generated texts are made of
DiffLineAlphabet == {<<>>, <<"a">>, <<"b">>}

RECURSIVE SeqsUpTo(_, _)
SeqsUpTo(S, n) ==
    IF n = 0 THEN {<<>>}
    ELSE LET shorter == SeqsUpTo(S, n - 1)
         IN  shorter \cup {Append(s, x) : s \in {t \in shorter : Len(t) = n - 1}, x \in S}

\* the scenario of the specification: "line1\nline2" against "line1\nline2x"
ScenarioOld == <<"l","i","n","e","1", NL, "l","i","n","e","2">>
ScenarioNew == <<"l","i","n","e","1", NL, "l","i","n","e","2","x">>

DiffTexts ==
    {JoinLines(ls) : ls \in SeqsUpTo(DiffLineAlphabet, MaxLines) \ {<<>>}}
        \cup {ScenarioOld, ScenarioNew}

DiffIdle ==
    /\ oldText = <<>> /\ newText = <<>>
    /\ oldLines = <<>> /\ newLines = <<>>
    /\ di = 0 /\ dj = 0
    /\ diff = <<>>
    /\ dpc = "idle"

\* lines 758-761: the state on entry to the loop
DiffEntry ==
    /\ oldText \in DiffTexts
    /\ newText \in DiffTexts
    /\ oldLines = SplitLines(oldText)
    /\ newLines = SplitLines(newText)
    /\ di = 0 /\ dj = 0
    /\ diff = <<>>
    /\ dpc = "loop"

-----------------------------------------------------------------------------
(* applySearchReplace, ChatEditor.tsx 777-807                              *)

SearchMarker  == <<"<","<","<","<","<","<","<"," ","S","E","A","R","C","H">>
SepMarker     == <<"=","=","=","=","=","=","=">>
ReplaceMarker == <<">",">",">",">",">",">",">"," ","R","E","P","L","A","C","E">>

\* GetSubstitution of String.prototype.replace for a string pattern: in the
\* replacement, $$ is "$", $& the matched text, $GRAVE the text before the match
\* and $' the text after it; any other "$" stands for itself (there are no
\* capture groups).
RECURSIVE GetSubstitution(_, _, _, _)
GetSubstitution(repl, matched, before, after) ==
    IF Len(repl) = 0 THEN <<>>
    ELSE IF repl[1] = "$" /\ Len(repl) >= 2 /\ repl[2] \in {"$", "&", Backtick, "'"}
    THEN (CASE repl[2] = "$" -> <<"$">>
            [] repl[2] = "&" -> matched
            [] repl[2] = Backtick -> before
            [] repl[2] = "'" -> after)
         \o GetSubstitution(Slice(repl, 2), matched, before, after)
    ELSE <<repl[1]>> \o GetSubstitution(Tail(repl), matched, before, after)

\* String.prototype.replace(pattern: string, replacement: string), line 801:
\* the first occurrence only, the replacement expanded by GetSubstitution.
StringReplace(text, pat, repl) ==
    LET p == IndexOf(text, pat)
    IN  IF p < 0 THEN text
        ELSE LET before == SubSeq(text, 1, p)
                 after  == Slice(text, p + Len(pat))
             IN  before \o GetSubstitution(repl, pat, before, after) \o after

\* the least index k >= from (0-based) of a line that includes marker; where
\* the inner while loops of lines 785 and 791 stop
StopIndex(ls, from, marker) ==
    IF \E k \in from..(Len(ls) - 1) : StrIncludes(ls[k + 1], marker)
    THEN CHOOSE k \in from..(Len(ls) - 1) :
            /\ StrIncludes(ls[k + 1], marker)
            /\ \A q \in from..(k - 1) : ~StrIncludes(ls[q + 1], marker)
    ELSE IF from > Len(ls) THEN from ELSE Len(ls)

\* lines 783-796 for a SEARCH line at index i: the two texts and the index
\* the outer loop continues from (after the i++ of line 804)
ParseBlock(ls, i) ==
    LET sepAt == StopIndex(ls, i + 1, SepMarker)
        endAt == StopIndex(ls, sepAt + 1, ReplaceMarker)
    IN  [searchText  |-> JoinLines(SubSeq(ls, i + 2, sepAt)),
         replaceText |-> JoinLines(SubSeq(ls, sepAt + 2, endAt)),
         next        |-> endAt + 1]

\* lines 797-802: the branch a block takes
BlockOutcome(res, s) ==
    IF Trim(s) = <<>> THEN "prepend"
    ELSE IF StrIncludes(res, s) THEN "replace"
    ELSE "miss"

\* lines 797-802: the running content after a block
ApplyBlock_AppendOnEmptySearch(res, s, r) ==
    CASE BlockOutcome(res, s) = "prepend" -> res \o <<NL>> \o r
      [] BlockOutcome(res, s) = "replace" -> StringReplace(res, s, r)
      [] BlockOutcome(res, s) = "miss"    -> res

ApplyBlock_MissClears(res, s, r) ==
    CASE BlockOutcome(res, s) = "prepend" -> r \o <<NL>> \o res
      [] BlockOutcome(res, s) = "replace" -> StringReplace(res, s, r)
      [] BlockOutcome(res, s) = "miss"    -> <<>>

ApplyBlock(res, s, r) ==
    CASE BlockOutcome(res, s) = "prepend" -> r \o <<NL>> \o res
      [] BlockOutcome(res, s) = "replace" -> StringReplace(res, s, r)
      [] BlockOutcome(res, s) = "miss"    -> res

\* line 782
IsSearchLine(ls, i) == StrIncludes(ls[i + 1], SearchMarker)

\* the whole function, lines 778-806
RECURSIVE ScanFrom(_, _, _)
ScanFrom(ls, i, res) ==
    IF i >= Len(ls) THEN res
    ELSE IF IsSearchLine(ls, i)
    THEN LET b == ParseBlock(ls, i)
         IN  ScanFrom(ls, b.next, ApplyBlock(res, b.searchText, b.replaceText))
    ELSE ScanFrom(ls, i + 1, res)

applySearchReplace(code, block) == ScanFrom(SplitLines(block), 0, code)

\* ---- the same function, one outer-loop iteration per step ----

\* the content a block is matched against: the running copy (line 800)
MatchTarget_OriginalContent == currentCode

MatchTarget == result

\* lines 782-803: a SEARCH line, and the block that follows it
PatchBlock(kind) ==
    /\ ppc = "loop"
    /\ pi < Len(lines)
    /\ IsSearchLine(lines, pi)
    /\ LET b == ParseBlock(lines, pi)
       IN  /\ BlockOutcome(MatchTarget, b.searchText) = kind
           /\ searchText' = b.searchText
           /\ replaceText' = b.replaceText
           /\ prevResult' = result
           /\ result' = ApplyBlock(MatchTarget, b.searchText, b.replaceText)
           /\ pi' = b.next
    /\ outcome' = kind
    /\ blockNo' = blockNo + 1
    /\ UNCHANGED <<currentCode, editBlock, lines, ppc>>
    /\ UNCHANGED <<diffVars, sessionVars, toolVars>>

\* lines 797-799
PatchPrepend ==
    /\ ppc = "loop"
    /\ PatchBlock("prepend")

\* lines 800-802
PatchReplace ==
    /\ ppc = "loop"
    /\ PatchBlock("replace")

\* line 800 false: nothing is assigned
PatchMiss ==
    /\ ppc = "loop"
    /\ PatchBlock("miss")

\* line 782 false, line 804: any other line is passed over
PatchSkipLine ==
    /\ ppc = "loop"
    /\ pi < Len(lines)
    /\ ~IsSearchLine(lines, pi)
    /\ pi' = pi + 1
    /\ UNCHANGED <<currentCode, editBlock, lines, result, searchText,
                   replaceText, prevResult, outcome, blockNo, ppc>>
    /\ UNCHANGED <<diffVars, sessionVars, toolVars>>

\* line 806
PatchReturn ==
    /\ ppc = "loop"
    /\ pi >= Len(lines)
    /\ ppc' = "done"
    /\ UNCHANGED <<currentCode, editBlock, lines, pi, result, searchText,
                   replaceText, prevResult, outcome, blockNo>>
    /\ UNCHANGED <<diffVars, sessionVars, toolVars>>

\* ---- inputs of applySearchReplace ----

\* most pieces (blocks or stray lines) of a generated candidate
MaxPieces == 2

\* the lines between SEARCH and =======
SearchChoices ==
    { <<>>, << <<" ">> >>, << <<"a">> >>, << <<"b">> >> }

\* the lines between ======= and REPLACE
ReplaceChoices ==
    { <<>>, << <<"b">> >>, << <<"$", "&">> >>, << <<"$", "$">> >> }

BlockLines(s, r) == <<SearchMarker>> \o s \o <<SepMarker>> \o r \o <<ReplaceMarker>>

Pieces ==
    {BlockLines(s, r) : s \in SearchChoices, r \in ReplaceChoices}
        \cup { << <<"a">> >>,                                  \* a line of prose
               <<SearchMarker, <<"a">>, SepMarker, <<"b">> >> } \* no end marker

RECURSIVE Flatten(_)
Flatten(ss) == IF Len(ss) = 0 THEN <<>> ELSE ss[1] \o Flatten(Tail(ss))

EditBlocks ==
    {JoinLines(Flatten(ps)) : ps \in SeqsUpTo(Pieces, MaxPieces) \ {<<>>}}

PatchContents ==
    { <<>>, <<"a">>, <<"b">>, <<"a", NL, "a">>, <<"a", NL, "b">> }

\* the scenario of the specification
ScenarioContent ==
    <<"l","i","n","e","1", NL, "l","i","n","e","2", NL, "l","i","n","e","3">>
ScenarioBlock ==
    JoinLines(<<SearchMarker, <<"l","i","n","e","2">>, SepMarker,
                <<"l","i","n","e","2","x">>, ReplaceMarker>>)

PatchInputs ==
    (PatchContents \X EditBlocks) \cup {<<ScenarioContent, ScenarioBlock>>}

PatchIdle ==
    /\ currentCode = <<>> /\ editBlock = <<>>
    /\ lines = <<>>
    /\ pi = 0
    /\ result = <<>>
    /\ searchText = <<>> /\ replaceText = <<>>
    /\ prevResult = <<>>
    /\ outcome = "none"
    /\ blockNo = 0
    /\ ppc = "idle"

\* lines 778-780: the state on entry to the outer loop
PatchEntry ==
    /\ \E input \in PatchInputs :
          /\ currentCode = input[1]
          /\ editBlock = input[2]
    /\ lines = SplitLines(editBlock)
    /\ pi = 0
    /\ result = currentCode
    /\ searchText = <<>> /\ replaceText = <<>>
    /\ prevResult = currentCode
    /\ outcome = "none"
    /\ blockNo = 0
    /\ ppc = "loop"

-----------------------------------------------------------------------------
(* The ChatEditor session, ChatEditor.tsx 623-1005                         *)

Null == <<>>
Some(x) == <<x>>

Msg(role, content) == [role |-> role, content |-> content]

\* line 841
OutOfCreditsText ==
    <<"You have run out of credits. Please use a full free model or add your own API key in Settings.">>
\* line 831
CodeUpdatedText == <<"Code updated successfully.">>
\* line 887
ErrorText(errorMsg) == <<"Error: ", errorMsg>>

\* ---- extractCodeFromMessage, lines 747-755 ----

Fence == <<Backtick, Backtick, Backtick>>

\* the word characters (the regex class w) that the texts of the model can hold
WordChars == {"a", "b", "c", "h", "i", "k", "o", "s", "t", "x", "_", "0", "1"}

\* number of word characters from the 0-based position q on
RECURSIVE WordRun(_, _)
WordRun(text, q) ==
    IF q < Len(text) /\ text[q + 1] \in WordChars THEN 1 + WordRun(text, q + 1) ELSE 0

\* one match attempt of the regular expression of line 748 starting at position p
MatchAt(text, p) ==
    LET tagEnd    == p + 3 + WordRun(text, p + 3)
        bodyStart == tagEnd + 1
        closes    == {e \in bodyStart..Len(text) : OccursAt(text, Fence, e)}
    IN  IF /\ OccursAt(text, Fence, p)
           /\ tagEnd < Len(text)
           /\ text[tagEnd + 1] = NL
           /\ closes # {}
        THEN LET e == CHOOSE x \in closes : \A y \in closes : x <= y
             IN  [ok |-> TRUE, body |-> SubSeq(text, bodyStart + 1, e), end |-> e + 3]
        ELSE [ok |-> FALSE, body |-> <<>>, end |-> p]

\* the exec loop of lines 751-753: lastCode after the matches from lastIndex on
RECURSIVE LastCodeFrom(_, _, _)
LastCodeFrom(text, lastIndex, lastCode) ==
    LET starts == {p \in lastIndex..Len(text) : MatchAt(text, p).ok}
    IN  IF starts = {} THEN lastCode
        ELSE LET p == CHOOSE x \in starts : \A y \in starts : x <= y
                 m == MatchAt(text, p)
             IN  LastCodeFrom(text, m.end, Some(m.body))

\* line 754: an empty body is falsy and gives null
ReturnedCode(lastCode) ==
    IF lastCode # Null /\ lastCode[1] # <<>> THEN Some(Trim(lastCode[1])) ELSE Null

extractCodeFromMessage(content) == ReturnedCode(LastCodeFrom(content, 0, Null))

\* ---- the same function, one exec call per step ----

\* the positions from lastIndex on at which the regular expression matches
MatchStarts(text, lastIndex) ==
    {p \in lastIndex..Len(text) : MatchAt(text, p).ok}

\* lines 751-752: exec finds a match
ExtractMatch ==
    /\ xpc = "loop"
    /\ MatchStarts(reContent, reLastIndex) # {}
    /\ LET starts == MatchStarts(reContent, reLastIndex)
           m == MatchAt(reContent, CHOOSE x \in starts : \A y \in starts : x <= y)
       IN  /\ reLastCode' = Some(m.body)
           /\ reLastIndex' = m.end
    /\ UNCHANGED <<reContent, reResult, xpc>>
    /\ UNCHANGED <<diffVars, patchVars, sessionVars, contextVars, uploadVars, scrapeVars>>

\* lines 751 and 754: exec returns null and the function returns
ExtractReturn ==
    /\ xpc = "loop"
    /\ MatchStarts(reContent, reLastIndex) = {}
    /\ reResult' = ReturnedCode(reLastCode)
    /\ reLastIndex' = 0
    /\ xpc' = "done"
    /\ UNCHANGED <<reContent, reLastCode>>
    /\ UNCHANGED <<diffVars, patchVars, sessionVars, contextVars, uploadVars, scrapeVars>>

\* ---- inputs of extractCodeFromMessage ----

\* most parts (paragraphs or fenced blocks) of a generated reply
MaxParts == 2

\* a fenced block: the fence, the language tag, the body on its own lines
\* (none when the body is empty), the fence
FencedBlock(tag, body) ==
    Fence \o tag \o <<NL>> \o body \o (IF body = <<>> THEN <<>> ELSE <<NL>>) \o Fence

ReplyParts ==
    { <<"o", "k">>,
      FencedBlock(<<"t", "s">>, <<"a">>),
      FencedBlock(<<>>, <<"b">>),
      FencedBlock(<<>>, <<>>),
      FencedBlock(<<>>, <<" ">>),
      FencedBlock(<<"c", "+", "+">>, <<"x">>) }

ExtractReplies ==
    {JoinLines(parts) : parts \in SeqsUpTo(ReplyParts, MaxParts)}

ExtractIdle ==
    /\ reContent = <<>>
    /\ reLastIndex = 0
    /\ reLastCode = Null
    /\ reResult = Null
    /\ xpc = "idle"

\* lines 748-750
ExtractEntry ==
    /\ reContent \in ExtractReplies
    /\ reLastIndex = 0
    /\ reLastCode = Null
    /\ reResult = Null
    /\ xpc = "loop"

\* ---- the model prop and the credit check, lines 836-840 ----

ToLowerChar(c) ==
    CASE c = "F" -> "f" [] c = "R" -> "r" [] c = "E" -> "e" [] OTHER -> c

ToLowerCase(s) == [k \in 1..Len(s) |-> ToLowerChar(s[k])]

IsFullFree(m) ==
    \/ StrIncludes(ToLowerCase(m.name), <<"f", "r", "e", "e">>)
    \/ ToLowerCase(m.license) = <<"f", "r", "e", "e">>
    \/ m.source = "huggingface"
    \/ m.source = "github"

\* line 840: the send is refused for lack of credits
OutOfCredits_OnlyWhenNegative == ~IsFullFree(model) /\ credits < 0

OutOfCredits == ~IsFullFree(model) /\ credits <= 0

\* line 883: the balance after a completion of the suspended call c
CreditsAfter_ChargesEveryModel(c) == credits - 1

CreditsAfter(c) == IF c.isFullFree THEN credits ELSE credits - 1

\* ---- applyEdit, lines 809-832 ----

\* updateNode, lines 817-826: the first node of the tree with the path
TargetNode(tree, path) ==
    LET hits == {k \in 1..Len(tree) : nodes[tree[k]].path = path}
    IN  IF hits = {} THEN Null
        ELSE Some(tree[CHOOSE k \in hits : \A q \in hits : k <= q])

\* lines 811-814
NewCode_AlwaysPatches(code, sel) ==
    applySearchReplace(nodes[sel[1]].content, code)

NewCode(code, sel) ==
    IF StrIncludes(code, SearchMarker)
    THEN applySearchReplace(nodes[sel[1]].content, code)
    ELSE code

\* applyEdit(code) run in a render whose scope holds selectedFile = sel and
\* files = tree: what it assigns, and the messages it appends
ApplyEdit(code, sel, tree) ==
    IF sel = Null
    THEN [applied |-> FALSE, nodes |-> nodes, files |-> files,
          editContent |-> editContent, pendingCode |-> pendingCode,
          appended |-> <<>>]
    ELSE LET newCode == NewCode(code, sel)
             target  == TargetNode(tree, nodes[sel[1]].path)
         IN  [applied |-> TRUE,
              nodes |-> IF target = Null THEN nodes
                        ELSE [nodes EXCEPT ![target[1]].content = newCode],
              files |-> tree,
              editContent |-> newCode,
              pendingCode |-> Null,
              appended |-> <<Msg("assistant", CodeUpdatedText)>>]

\* ---- bounds and inputs of the session ----

\* most handleSendMessage calls with a non-empty input in one run
MaxSends == 2
\* most folder uploads in one run
MaxUploads == 2
\* most file clicks, mode toggles, editor edits and chat clears in one run
MaxClicks == 2
\* largest initial credit balance
MaxCredits == 1

\* the runs explored: many sends, many uploads or many clicks around one of
\* each of the others
Budgets ==
    { [sends |-> MaxSends, uploads |-> 1, clicks |-> 1],
      [sends |-> 1, uploads |-> MaxUploads, clicks |-> 1],
      [sends |-> 1, uploads |-> 1, clicks |-> MaxClicks] }

\* the folder the user uploads: (path, content) of its files, in upload order
ProjectFiles ==
    << [path |-> "src/a.ts", content |-> <<"a">>],
       [path |-> "src/b.ts", content |-> <<"a", NL, "a">>] >>

Models ==
    { [name |-> <<"g", "p", "t">>, license |-> <<"m", "i", "t">>, source |-> "openrouter"],
      [name |-> <<"y", "i">>, license |-> <<"F", "r", "e", "e">>, source |-> "openrouter"],
      [name |-> <<"b", "e", "r", "t">>, license |-> <<"m", "i", "t">>, source |-> "huggingface"] }

\* the keys App passes down (App.tsx 154-162): none stored, or the user's own
ApiKeys == { <<>>, <<"s", "k">> }

\* the model and the key a session runs with; the user's own key is explored
\* with the models that need credits
Accounts ==
    {account \in [model : Models, apiKey : ApiKeys] :
        account.apiKey = <<>> \/ ~IsFullFree(account.model)}

ChatInputs == { <<>>, <<"h", "i">> }

EditorTexts == { <<"x">> }

ReplyProse == <<"o", "k">>
ReplyFull == Fence \o <<"t", "s", NL, "b", NL>> \o Fence
ReplyPatch ==
    Fence \o <<NL>> \o JoinLines(BlockLines(<< <<"a">> >>, << <<"c">> >>))
          \o <<NL>> \o Fence
Replies == {ReplyProse, ReplyFull, ReplyPatch}

\* extractCodeFromMessage of each reply
CandidateOf == [reply \in Replies |-> extractCodeFromMessage(reply)]

RelayErrors == {"Request failed with status code 429"}

RemoveAt(s, k) == SubSeq(s, 1, k - 1) \o SubSeq(s, k + 1, Len(s))

\* ---- handleSendMessage up to its await, lines 834-873 ----

\* line 1000: disabled={!chatInput.trim() || isTyping}
SendButtonEnabled == Trim(chatInput) # <<>> /\ ~isTyping

\* what the suspended call keeps of the render it was started in
Closure ==
    [selectedFile |-> selectedFile, autoEditMode |-> autoEditMode,
     files |-> files, isFullFree |-> IsFullFree(model)]

HandleSendMessage ==
    /\ Trim(chatInput) = <<>> \/ sends < budget.sends
    /\ IF Trim(chatInput) = <<>>
       THEN UNCHANGED <<chatMessages, chatInput, isTyping, inflight, sends>>
       ELSE IF OutOfCredits
       THEN /\ chatMessages' = Append(chatMessages, Msg("assistant", OutOfCreditsText))
            /\ sends' = sends + 1
            /\ UNCHANGED <<chatInput, isTyping, inflight>>
       ELSE /\ chatMessages' = Append(chatMessages, Msg("user", chatInput))
            /\ chatInput' = <<>>
            /\ isTyping' = TRUE
            /\ inflight' = Append(inflight, Closure)
            /\ sends' = sends + 1
    /\ UNCHANGED <<nodes, files, selectedFile, editContent, isUploading,
                   autoEditMode, storedMode, pendingCode, credits, model, uploading>>
    /\ UNCHANGED <<diffVars, patchVars, toolVars, apiKey, session, clicks, budget>>

\* line 1000: the Send button
SendClick ==
    /\ SendButtonEnabled
    /\ HandleSendMessage

\* line 999: Enter without Shift in the textarea
SendEnter ==
    /\ TRUE
    /\ HandleSendMessage

\* ---- handleSendMessage after its await, lines 875-890 ----

\* lines 879-881, in the scope of the suspended call c
GateBranch_IgnoresSelection(c, extractedCode) ==
    IF extractedCode # Null /\ extractedCode[1] # <<>>
    THEN IF c.autoEditMode = "always" THEN "apply" ELSE "pending"
    ELSE "none"

GateBranch(c, extractedCode) ==
    IF extractedCode # Null /\ extractedCode[1] # <<>> /\ c.selectedFile # Null
    THEN IF c.autoEditMode = "always" THEN "apply" ELSE "pending"
    ELSE "none"

RelayReply(k, reply, branch) ==
    LET c    == inflight[k]
        code == CandidateOf[reply]
        e    == ApplyEdit(code[1], c.selectedFile, c.files)
    IN  /\ GateBranch(c, code) = branch
        /\ IF branch = "apply"
           THEN /\ nodes' = e.nodes
                /\ files' = e.files
                /\ editContent' = e.editContent
                /\ pendingCode' = e.pendingCode
                /\ chatMessages' = Append(chatMessages, Msg("assistant", reply)) \o e.appended
           ELSE /\ pendingCode' = IF branch = "pending" THEN code ELSE pendingCode
                /\ chatMessages' = Append(chatMessages, Msg("assistant", reply))
                /\ UNCHANGED <<nodes, files, editContent>>
        /\ credits' = CreditsAfter(c)
        /\ isTyping' = FALSE
        /\ inflight' = RemoveAt(inflight, k)
        /\ UNCHANGED <<selectedFile, chatInput, isUploading, autoEditMode,
                       storedMode, model, uploading, sends>>
        /\ UNCHANGED <<diffVars, patchVars, toolVars, apiKey, session, clicks, budget>>

\* the reply holds no candidate, or the call was started with no file selected
ReplyNoCandidate ==
    \E k \in 1..Len(inflight), reply \in Replies : RelayReply(k, reply, "none")

\* line 880
ReplyAutoApply ==
    \E k \in 1..Len(inflight), reply \in Replies : RelayReply(k, reply, "apply")

\* line 881
ReplyPending ==
    \E k \in 1..Len(inflight), reply \in Replies : RelayReply(k, reply, "pending")

\* lines 884-890
RelayFail_KeepsTyping ==
    \E k \in 1..Len(inflight), errorMsg \in RelayErrors :
        /\ chatMessages' = Append(chatMessages, Msg("assistant", ErrorText(errorMsg)))
        /\ inflight' = RemoveAt(inflight, k)
        /\ UNCHANGED <<nodes, files, selectedFile, editContent, chatInput, isTyping,
                       isUploading, autoEditMode, storedMode, pendingCode,
                       credits, model, uploading, sends>>
        /\ UNCHANGED <<diffVars, patchVars, toolVars, apiKey, session, clicks, budget>>

RelayFail_DropsConversation ==
    \E k \in 1..Len(inflight), errorMsg \in RelayErrors :
        /\ chatMessages' = <<Msg("assistant", ErrorText(errorMsg))>>
        /\ isTyping' = FALSE
        /\ inflight' = RemoveAt(inflight, k)
        /\ UNCHANGED <<nodes, files, selectedFile, editContent, chatInput,
                       isUploading, autoEditMode, storedMode, pendingCode,
                       credits, model, uploading, sends>>
        /\ UNCHANGED <<diffVars, patchVars, toolVars, apiKey, session, clicks, budget>>

RelayFail ==
    \E k \in 1..Len(inflight), errorMsg \in RelayErrors :
        /\ chatMessages' = Append(chatMessages, Msg("assistant", ErrorText(errorMsg)))
        /\ isTyping' = FALSE
        /\ inflight' = RemoveAt(inflight, k)
        /\ UNCHANGED <<nodes, files, selectedFile, editContent, chatInput,
                       isUploading, autoEditMode, storedMode, pendingCode,
                       credits, model, uploading, sends>>
        /\ UNCHANGED <<diffVars, patchVars, toolVars, apiKey, session, clicks, budget>>

\* ---- the review overlay, lines 938-959 ----

\* line 951
Reject_ResetsEditor ==
    /\ pendingCode # Null
    /\ pendingCode' = Null
    /\ editContent' = IF selectedFile = Null THEN <<>>
                      ELSE nodes[selectedFile[1]].content
    /\ UNCHANGED <<nodes, files, selectedFile, chatMessages,
                   chatInput, isTyping, isUploading, autoEditMode, storedMode,
                   credits, model, inflight, uploading, sends>>
    /\ UNCHANGED <<diffVars, patchVars, toolVars, apiKey, session, clicks, budget>>

Reject ==
    /\ pendingCode # Null
    /\ pendingCode' = Null
    /\ UNCHANGED <<nodes, files, selectedFile, editContent, chatMessages,
                   chatInput, isTyping, isUploading, autoEditMode, storedMode,
                   credits, model, inflight, uploading, sends>>
    /\ UNCHANGED <<diffVars, patchVars, toolVars, apiKey, session, clicks, budget>>

ReviewApply_KeepsPending(mode) ==
    LET e == ApplyEdit(pendingCode[1], selectedFile, files)
    IN  /\ pendingCode # Null
        /\ nodes' = e.nodes
        /\ files' = e.files
        /\ editContent' = e.editContent
        /\ pendingCode' = pendingCode
        /\ chatMessages' = chatMessages \o e.appended
        /\ autoEditMode' = mode
        /\ storedMode' = Some(mode)
        /\ UNCHANGED <<selectedFile, chatInput, isTyping, isUploading, credits,
                       model, inflight, uploading, sends>>
        /\ UNCHANGED <<diffVars, patchVars, toolVars, apiKey, session, clicks, budget>>

ReviewApply(mode) ==
    LET e == ApplyEdit(pendingCode[1], selectedFile, files)
    IN  /\ pendingCode # Null
        /\ nodes' = e.nodes
        /\ files' = e.files
        /\ editContent' = e.editContent
        /\ pendingCode' = e.pendingCode
        /\ chatMessages' = chatMessages \o e.appended
        /\ autoEditMode' = mode
        /\ storedMode' = Some(mode)
        /\ UNCHANGED <<selectedFile, chatInput, isTyping, isUploading, credits,
                       model, inflight, uploading, sends>>
        /\ UNCHANGED <<diffVars, patchVars, toolVars, apiKey, session, clicks, budget>>

\* line 954
Apply ==
    /\ pendingCode # Null
    /\ ReviewApply(autoEditMode)

\* line 953; the effect of lines 642-644 stores the new mode
AlwaysAllow ==
    /\ pendingCode # Null
    /\ ReviewApply("always")

\* ---- the other handlers ----

\* line 980; the effect of lines 642-644 stores the new mode
ToggleMode ==
    /\ autoEditMode' = IF autoEditMode = "ask" THEN "always" ELSE "ask"
    /\ storedMode' = Some(autoEditMode')
    /\ UNCHANGED <<nodes, files, selectedFile, editContent, chatMessages,
                   chatInput, isTyping, isUploading, pendingCode, credits,
                   model, inflight, uploading, sends>>
    /\ clicks < budget.clicks
    /\ clicks' = clicks + 1
    /\ UNCHANGED <<diffVars, patchVars, toolVars, apiKey, session, budget>>

\* handleFileClick, lines 719-724; the tree is drawn only while no upload
\* runs (line 921)
FileClick ==
    \E k \in 1..Len(files) :
        /\ ~isUploading
        /\ selectedFile' = Some(files[k])
        /\ editContent' = nodes[files[k]].content
        /\ UNCHANGED <<nodes, files, chatMessages, chatInput, isTyping,
                       isUploading, autoEditMode, storedMode, pendingCode,
                       credits, model, inflight, uploading, sends>>
        /\ clicks < budget.clicks
        /\ clicks' = clicks + 1
        /\ UNCHANGED <<diffVars, patchVars, toolVars, apiKey, session, budget>>

\* line 961: typing in the editor
EditorChange ==
    \E text \in EditorTexts :
        /\ selectedFile # Null
        /\ editContent' = text
        /\ UNCHANGED <<nodes, files, selectedFile, chatMessages, chatInput,
                       isTyping, isUploading, autoEditMode, storedMode,
                       pendingCode, credits, model, inflight, uploading, sends>>
        /\ clicks < budget.clicks
        /\ clicks' = clicks + 1
        /\ UNCHANGED <<diffVars, patchVars, toolVars, apiKey, session, budget>>

\* line 999: typing in the chat box
ChatInputChange ==
    \E text \in ChatInputs :
        /\ chatInput' = text
        /\ UNCHANGED <<nodes, files, selectedFile, editContent, chatMessages,
                       isTyping, isUploading, autoEditMode, storedMode,
                       pendingCode, credits, model, inflight, uploading, sends>>
        /\ UNCHANGED <<diffVars, patchVars, toolVars, apiKey, session, clicks, budget>>

\* line 984
ClearChat ==
    /\ Len(chatMessages) > 0
    /\ chatMessages' = <<>>
    /\ UNCHANGED <<nodes, files, selectedFile, editContent, chatInput,
                   isTyping, isUploading, autoEditMode, storedMode,
                   pendingCode, credits, model, inflight, uploading, sends>>
    /\ clicks < budget.clicks
    /\ clicks' = clicks + 1
    /\ UNCHANGED <<diffVars, patchVars, toolVars, apiKey, session, budget>>

\* handleFolderUpload up to its first await, lines 659-666
UploadStart ==
    /\ uploading + (Len(nodes) \div Len(ProjectFiles)) < budget.uploads
    /\ isUploading' = TRUE
    /\ uploading' = uploading + 1
    /\ UNCHANGED <<nodes, files, selectedFile, editContent, chatMessages,
                   chatInput, isTyping, autoEditMode, storedMode, pendingCode,
                   credits, model, inflight, sends>>
    /\ UNCHANGED <<diffVars, patchVars, toolVars, apiKey, session, clicks, budget>>

\* handleFolderUpload from line 708 on: the tree of new FileNode objects
\* replaces the old one
UploadFinish ==
    /\ uploading > 0
    /\ nodes' = nodes \o ProjectFiles
    /\ files' = [k \in 1..Len(ProjectFiles) |-> Len(nodes) + k]
    /\ isUploading' = FALSE
    /\ uploading' = uploading - 1
    /\ UNCHANGED <<selectedFile, editContent, chatMessages, chatInput,
                   isTyping, autoEditMode, storedMode, pendingCode, credits,
                   model, inflight, sends>>
    /\ UNCHANGED <<diffVars, patchVars, toolVars, apiKey, session, clicks, budget>>

\* handleFolderUpload when a read of line 695 rejects: lines 709-716, the
\* tree built so far is dropped and setFiles is never called
UploadAbort ==
    /\ uploading > 0
    /\ isUploading' = FALSE
    /\ uploading' = uploading - 1
    /\ UNCHANGED <<nodes, files, selectedFile, editContent, chatMessages,
                   chatInput, isTyping, autoEditMode, storedMode, pendingCode,
                   credits, model, inflight, sends>>
    /\ UNCHANGED <<diffVars, patchVars, toolVars, apiKey, session, clicks, budget>>

SessionIdle ==
    /\ nodes = <<>> /\ files = <<>>
    /\ selectedFile = Null
    /\ editContent = <<>>
    /\ chatMessages = <<>>
    /\ chatInput = <<>>
    /\ isTyping = FALSE
    /\ isUploading = FALSE
    /\ autoEditMode = "ask"
    /\ storedMode = Null
    /\ pendingCode = Null
    /\ credits = 0
    /\ model = [name |-> <<>>, license |-> <<>>, source |-> ""]
    /\ apiKey = <<>>
    /\ session = [no |-> 0, mounted |-> FALSE]
    /\ inflight = <<>>
    /\ uploading = 0
    /\ sends = 0
    /\ clicks = 0
    /\ budget = [sends |-> 0, uploads |-> 0, clicks |-> 0]

\* lines 624-644: the state after the first render and its effects
SessionEntry ==
    /\ nodes = <<>> /\ files = <<>>
    /\ selectedFile = Null
    /\ editContent = <<>>
    /\ chatMessages = <<>>
    /\ chatInput = <<>>
    /\ isTyping = FALSE
    /\ isUploading = FALSE
    /\ autoEditMode \in {"ask", "always"}
    /\ storedMode = Some(autoEditMode)
    /\ pendingCode = Null
    /\ credits \in {0, MaxCredits}
    /\ \E account \in Accounts :
          /\ model = account.model
          /\ apiKey = account.apiKey
    /\ session = [no |-> 1, mounted |-> TRUE]
    /\ inflight = <<>>
    /\ uploading = 0
    /\ sends = 0
    /\ clicks = 0
    /\ budget \in Budgets

\* a session with a free model in which the folder is uploaded again between
\* two requests
ReuploadEntry ==
    /\ nodes = <<>> /\ files = <<>>
    /\ selectedFile = Null
    /\ editContent = <<>>
    /\ chatMessages = <<>>
    /\ chatInput = <<>>
    /\ isTyping = FALSE
    /\ isUploading = FALSE
    /\ autoEditMode \in {"ask", "always"}
    /\ storedMode = Some(autoEditMode)
    /\ pendingCode = Null
    /\ credits = MaxCredits
    /\ \E account \in Accounts :
          /\ account.apiKey = <<>>
          /\ account.model.source = "huggingface"
          /\ model = account.model
          /\ apiKey = account.apiKey
    /\ session = [no |-> 1, mounted |-> TRUE]
    /\ inflight = <<>>
    /\ uploading = 0
    /\ sends = 0
    /\ clicks = 0
    /\ budget = [sends |-> MaxSends, uploads |-> MaxUploads, clicks |-> MaxClicks]

\* ---- sessions: ChatEditor mounted and unmounted by App ----

\* most ChatEditor instances mounted one after the other
MaxSessions == 2

\* lines 633-635: the initial autoEditMode
InitialMode_AlwaysAsk(stored) == "ask"

InitialMode(stored) == IF stored = Null THEN "ask" ELSE stored[1]

\* App.tsx 376-377 and 153-167: a model is chosen and ChatEditor is mounted;
\* lines 624-636 initialise its state and the effect of 642-644 stores the
\* mode
Mount ==
    /\ ~session.mounted
    /\ session.no < MaxSessions
    /\ session' = [no |-> session.no + 1, mounted |-> TRUE]
    /\ autoEditMode' = InitialMode(storedMode)
    /\ storedMode' = Some(autoEditMode')
    /\ UNCHANGED <<nodes, files, selectedFile, editContent, chatMessages,
                   chatInput, isTyping, isUploading, pendingCode, credits,
                   model, inflight, uploading, sends>>
    /\ UNCHANGED <<diffVars, patchVars, toolVars, apiKey, clicks, budget>>

\* App.tsx 165: Back unmounts ChatEditor, whose state is lost; what is
\* stored stays. The model lets the user leave when no request and no upload
\* is suspended, and keeps autoEditMode as the instance left it.
Unmount ==
    /\ session.mounted
    /\ inflight = <<>> /\ uploading = 0
    /\ session' = [session EXCEPT !.mounted = FALSE]
    /\ nodes' = <<>> /\ files' = <<>>
    /\ selectedFile' = Null
    /\ editContent' = <<>>
    /\ chatMessages' = <<>>
    /\ chatInput' = <<>>
    /\ pendingCode' = Null
    /\ UNCHANGED <<isTyping, isUploading, autoEditMode, storedMode, credits,
                   model, inflight, uploading, sends>>
    /\ UNCHANGED <<diffVars, patchVars, toolVars, apiKey, clicks, budget>>

\* what localStorage holds under auto_edit_mode before the first session
StoredModes == {Null, Some("ask"), Some("always")}

\* App before ChatEditor is first mounted
UnmountedEntry ==
    /\ nodes = <<>> /\ files = <<>>
    /\ selectedFile = Null
    /\ editContent = <<>>
    /\ chatMessages = <<>>
    /\ chatInput = <<>>
    /\ isTyping = FALSE
    /\ isUploading = FALSE
    /\ autoEditMode = "ask"
    /\ storedMode \in StoredModes
    /\ pendingCode = Null
    /\ credits = MaxCredits
    /\ \E account \in Accounts :
          /\ account.apiKey = <<>>
          /\ IsFullFree(account.model)
          /\ account.model.source = "openrouter"
          /\ model = account.model
          /\ apiKey = account.apiKey
    /\ session = [no |-> 0, mounted |-> FALSE]
    /\ inflight = <<>>
    /\ uploading = 0
    /\ sends = 0
    /\ clicks = 0
    /\ budget = [sends |-> 1, uploads |-> 1, clicks |-> MaxClicks]

-----------------------------------------------------------------------------
(* generateProjectContext, ChatEditor.tsx 726-745                          *)

\* line 730
CONTEXT_LIMIT == 50000

\* line 736: the length a file body is cut to
SNIPPET_LIMIT == 5000

\* line 736: what follows a body that was cut
TruncatedMarker ==
    <<".", ".", ".", " ", "[", "t", "r", "u", "n", "c", "a", "t", "e", "d", "]">>

\* A file body is kept as the file it comes from and the number of its leading
\* characters that are taken: Body(p, n) is the first n characters of the
\* body of the file at path p.
Body(path, len) == [of |-> path, len |-> len]

\* String.prototype.substring(0, n)
Substring(text, n) == [text EXCEPT !.len = IF text.len < n THEN text.len ELSE n]

\* line 736
Snippet(fileContent) ==
    IF fileContent.len > SNIPPET_LIMIT
    THEN [text |-> Substring(fileContent, SNIPPET_LIMIT), marker |-> TruncatedMarker]
    ELSE [text |-> fileContent, marker |-> <<>>]

\* snippet.length, line 738
SnippetLength(snippet) == snippet.text.len + Len(snippet.marker)

\* line 735: an empty string is falsy, so is the undefined content of a
\* directory
ShouldEmit_IgnoresBudget(node, total) ==
    /\ node.kind = "file"
    /\ node.content # Null
    /\ node.content[1].len > 0

ShouldEmit(node, total) ==
    /\ node.kind = "file"
    /\ node.content # Null
    /\ node.content[1].len > 0
    /\ total < CONTEXT_LIMIT

\* line 734: one line of the structure section
StructureLine(node) == [indent |-> node.depth, kind |-> node.kind, name |-> node.name]

\* line 737: one block of the contents section
ContentBlock(node) == [path |-> node.path, snippet |-> Snippet(node.content[1])]

\* lines 733-740 for a file whose body is emitted
CtxEmit ==
    /\ cpc = "walk"
    /\ ctxPos < Len(ctxNodes)
    /\ LET node == ctxNodes[ctxPos + 1]
       IN  /\ ShouldEmit(node, totalContextLength)
           /\ structure' = Append(structure, StructureLine(node))
           /\ contentOverview' = Append(contentOverview, ContentBlock(node))
           /\ totalContextLength' =
                  totalContextLength + SnippetLength(Snippet(node.content[1]))
    /\ ctxPos' = ctxPos + 1
    /\ UNCHANGED <<ctxNodes, cpc>>
    /\ UNCHANGED <<diffVars, patchVars, sessionVars, extractVars, uploadVars, scrapeVars>>

\* lines 733-740 for a directory, and for a file whose body is not emitted
CtxListOnly ==
    /\ cpc = "walk"
    /\ ctxPos < Len(ctxNodes)
    /\ LET node == ctxNodes[ctxPos + 1]
       IN  /\ ~ShouldEmit(node, totalContextLength)
           /\ structure' = Append(structure, StructureLine(node))
    /\ ctxPos' = ctxPos + 1
    /\ UNCHANGED <<ctxNodes, contentOverview, totalContextLength, cpc>>
    /\ UNCHANGED <<diffVars, patchVars, sessionVars, extractVars, uploadVars, scrapeVars>>

\* lines 743-744
CtxReturn ==
    /\ cpc = "walk"
    /\ ctxPos >= Len(ctxNodes)
    /\ cpc' = "done"
    /\ UNCHANGED <<ctxNodes, ctxPos, structure, contentOverview, totalContextLength>>
    /\ UNCHANGED <<diffVars, patchVars, sessionVars, extractVars, uploadVars, scrapeVars>>

\* ---- inputs of generateProjectContext ----

\* most files of SNIPPET_LIMIT characters or more that follow each other
MaxBigFiles == 10
\* most nodes after them
MaxTail == 2

\* the nodes trees are made of: a directory, an empty file, a short file and
\* a file one character over the per-file limit
DirShape == [kind |-> "directory", len |-> 0]
FileShape(len) == [kind |-> "file", len |-> len]

Shapes == {DirShape, FileShape(0), FileShape(3), FileShape(SNIPPET_LIMIT + 1)}

\* the files that fill the budget: exactly at the per-file limit, or over it
Fillers == {FileShape(SNIPPET_LIMIT), FileShape(SNIPPET_LIMIT + 1)}

\* the number of directories among the first k shapes
RECURSIVE DirsBefore(_, _)
DirsBefore(shapes, k) ==
    IF k = 0 THEN 0
    ELSE DirsBefore(shapes, k - 1) + (IF shapes[k].kind = "directory" THEN 1 ELSE 0)

\* The tree in walk order: the node at position k is named k; every directory
\* is the last child of the directory before it and holds the nodes after it.
TreeOf(shapes) ==
    [k \in 1..Len(shapes) |->
        [kind    |-> shapes[k].kind,
         name    |-> k,
         path    |-> k,
         depth   |-> DirsBefore(shapes, k - 1),
         content |-> IF shapes[k].kind = "directory" THEN Null
                     ELSE Some(Body(k, shapes[k].len))]]

CtxTrees ==
    {TreeOf(head \o [k \in 1..n |-> filler] \o tail) :
        head \in SeqsUpTo(Shapes, 1), n \in 0..MaxBigFiles,
        filler \in Fillers, tail \in SeqsUpTo(Shapes, MaxTail)}

ContextIdle ==
    /\ ctxNodes = <<>>
    /\ ctxPos = 0
    /\ structure = <<>>
    /\ contentOverview = <<>>
    /\ totalContextLength = 0
    /\ cpc = "idle"

\* lines 727-730: the state when walk starts
ContextEntry ==
    /\ ctxNodes \in CtxTrees
    /\ ctxPos = 0
    /\ structure = <<>>
    /\ contentOverview = <<>>
    /\ totalContextLength = 0
    /\ cpc = "walk"

-----------------------------------------------------------------------------
(* handleFolderUpload, ChatEditor.tsx 659-717                              *)

\* line 620
EXCLUDED_DIRS == {"node_modules", ".git", "dist", "build", ".next", ".vite"}

\* line 621
MAX_FILE_SIZE == 1 * 1024 * 1024

\* the decimal digits of a natural number
Digit(d) ==
    CASE d = 0 -> "0" [] d = 1 -> "1" [] d = 2 -> "2" [] d = 3 -> "3"
      [] d = 4 -> "4" [] d = 5 -> "5" [] d = 6 -> "6" [] d = 7 -> "7"
      [] d = 8 -> "8" [] d = 9 -> "9"

RECURSIVE Digits(_)
Digits(n) == IF n < 10 THEN <<Digit(n)>> ELSE Append(Digits(n \div 10), Digit(n % 10))

\* (file.size / 1024 / 1024).toFixed(2), line 693: megabytes rounded to the
\* nearest hundredth
ToFixed2MB(size) ==
    LET hundredths == (size * 100 + (MAX_FILE_SIZE \div 2)) \div MAX_FILE_SIZE
    IN  Digits(hundredths \div 100)
            \o <<".", Digit((hundredths % 100) \div 10), Digit(hundredths % 10)>>

\* line 693
TooLargeText(size) ==
    <<"[File too large to display: ">> \o ToFixed2MB(size) \o <<"MB]">>

\* line 672
IsExcluded_TopLevelOnly(entry) == entry.pathParts[1] \in EXCLUDED_DIRS

IsExcluded(entry) == \E j \in 1..Len(entry.pathParts) : entry.pathParts[j] \in EXCLUDED_DIRS

\* line 682: the node the levels walked so far hold at a path. The tree is
\* kept as the sequence of its nodes in creation order, each with its full
\* path, so the children of a node are the nodes one part longer, in order.
HasNode(tree, path) == \E k \in 1..Len(tree) : tree[k].path = path

\* lines 684-689: the node created for the first j parts of an entry
NewNode_LimitExcluded(entry, j) ==
    [name |-> entry.pathParts[j],
     path |-> SubSeq(entry.pathParts, 1, j),
     kind |-> IF j = Len(entry.pathParts) THEN "file" ELSE "directory",
     content |-> IF j < Len(entry.pathParts) THEN Null
                 ELSE IF entry.size >= MAX_FILE_SIZE THEN Some(TooLargeText(entry.size))
                 ELSE Some(entry.text)]

NewNode(entry, j) ==
    [name |-> entry.pathParts[j],
     path |-> SubSeq(entry.pathParts, 1, j),
     kind |-> IF j = Len(entry.pathParts) THEN "file" ELSE "directory",
     content |-> IF j < Len(entry.pathParts) THEN Null
                 ELSE IF entry.size > MAX_FILE_SIZE THEN Some(TooLargeText(entry.size))
                 ELSE Some(entry.text)]

\* lines 677-702: the tree after the parts of an entry from the j-th on
InsertFrom_NoLookup(tree, entry, j) ==
    tree \o [q \in 1..(Len(entry.pathParts) - j + 1) |-> NewNode(entry, j + q - 1)]

RECURSIVE InsertFrom(_, _, _)
InsertFrom(tree, entry, j) ==
    IF j > Len(entry.pathParts) THEN tree
    ELSE IF HasNode(tree, SubSeq(entry.pathParts, 1, j))
    THEN InsertFrom(tree, entry, j + 1)
    ELSE InsertFrom(Append(tree, NewNode(entry, j)), entry, j + 1)

\* line 695 is reached: the file node is new and the file is not too large
Reads(tree, entry) ==
    /\ ~HasNode(tree, entry.pathParts)
    /\ entry.size <= MAX_FILE_SIZE

\* line 695 is reached and file.text() rejects
ReadRejects(tree, entry) == Reads(tree, entry) /\ ~entry.readable

\* line 704
YIELD_EVERY == 50

\* line 704, for the entry of index i
YieldsAfter(i) == i % YIELD_EVERY = 0

\* lines 684-690: the nodes of an entry are pushed before line 695 reads the
\* file, whose node has no content yet
PushedBeforeRead(tree, entry) ==
    LET pushed == InsertFrom(tree, entry, 1)
    IN  [pushed EXCEPT ![Len(pushed)].content = Null]

\* line 661
UploadNothing ==
    /\ upc = "loop"
    /\ Len(uploadedFiles) = 0
    /\ upc' = "done"
    /\ UNCHANGED <<uploadedFiles, ui, root, upFiles, sinceYield, events>>
    /\ UNCHANGED <<diffVars, patchVars, sessionVars, contextVars, extractVars, calls, scrapeVars>>

\* line 672: continue
UploadSkipExcluded ==
    /\ upc = "loop"
    /\ ui < Len(uploadedFiles)
    /\ IsExcluded(uploadedFiles[ui + 1])
    /\ ui' = ui + 1
    /\ sinceYield' = sinceYield + 1
    /\ UNCHANGED <<uploadedFiles, root, upFiles, events, upc>>
    /\ UNCHANGED <<diffVars, patchVars, sessionVars, contextVars, extractVars, calls, scrapeVars>>

\* lines 674-705 for an entry whose nodes are found or created, up to the
\* next iteration or to the timer of line 705. The await of line 695
\* suspends the call in the middle of the entry.
UploadInsert ==
    /\ upc = "loop"
    /\ ui < Len(uploadedFiles)
    /\ ~IsExcluded(uploadedFiles[ui + 1])
    /\ ~ReadRejects(root, uploadedFiles[ui + 1])
    /\ root' = InsertFrom(root, uploadedFiles[ui + 1], 1)
    /\ ui' = ui + 1
    /\ sinceYield' = IF Reads(root, uploadedFiles[ui + 1]) THEN 1 ELSE sinceYield + 1
    /\ upc' = IF YieldsAfter(ui) THEN "yield" ELSE "loop"
    /\ UNCHANGED <<uploadedFiles, upFiles, events>>
    /\ UNCHANGED <<diffVars, patchVars, sessionVars, contextVars, extractVars, calls, scrapeVars>>

\* line 705: the timer fires and the loop goes on
UploadResume ==
    /\ upc = "yield"
    /\ sinceYield' = 0
    /\ upc' = "loop"
    /\ UNCHANGED <<uploadedFiles, ui, root, upFiles, events>>
    /\ UNCHANGED <<diffVars, patchVars, sessionVars, contextVars, extractVars, calls, scrapeVars>>

\* line 695 throws: the catch of line 709 ends the call, setFiles of line 708
\* is not reached
UploadReadFails ==
    /\ upc = "loop"
    /\ ui < Len(uploadedFiles)
    /\ ~IsExcluded(uploadedFiles[ui + 1])
    /\ ReadRejects(root, uploadedFiles[ui + 1])
    /\ root' = PushedBeforeRead(root, uploadedFiles[ui + 1])
    /\ sinceYield' = 0
    /\ upc' = "failed"
    /\ UNCHANGED <<uploadedFiles, ui, upFiles, events>>
    /\ UNCHANGED <<diffVars, patchVars, sessionVars, contextVars, extractVars, calls, scrapeVars>>

\* line 708
UploadSetFiles_KeepsShownTree ==
    /\ upc = "loop"
    /\ Len(uploadedFiles) > 0
    /\ ui >= Len(uploadedFiles)
    /\ upFiles' = upFiles \o root
    /\ upc' = "done"
    /\ UNCHANGED <<uploadedFiles, ui, root, sinceYield, events>>
    /\ UNCHANGED <<diffVars, patchVars, sessionVars, contextVars, extractVars, calls, scrapeVars>>

UploadSetFiles ==
    /\ upc = "loop"
    /\ Len(uploadedFiles) > 0
    /\ ui >= Len(uploadedFiles)
    /\ upFiles' = root
    /\ upc' = "done"
    /\ UNCHANGED <<uploadedFiles, ui, root, sinceYield, events>>
    /\ UNCHANGED <<diffVars, patchVars, sessionVars, contextVars, extractVars, calls, scrapeVars>>

\* most handlers of other events run while one upload is suspended
MaxEvents == 1

\* the content an edit applied meanwhile leaves in a node
EditedContent == Some(<<"e">>)

\* While the call is suspended at line 705 a handler of another event runs.
\* Clicks, sends and toggles write state the call never reads; the one
\* handler that writes the tree is applyEdit (lines 816-828), which changes
\* the content of a node of the tree on display and sets files again.
UploadInterleavedEdit ==
    \E k \in 1..Len(upFiles) :
        /\ upc = "yield"
        /\ events < MaxEvents
        /\ upFiles[k].kind = "file"
        /\ upFiles' = [upFiles EXCEPT ![k].content = EditedContent]
        /\ events' = events + 1
        /\ UNCHANGED <<uploadedFiles, ui, root, sinceYield, upc>>
        /\ UNCHANGED <<diffVars, patchVars, sessionVars, contextVars, extractVars, calls, scrapeVars>>

\* ---- inputs of handleFolderUpload ----

\* most entries of an upload
MaxEntries == 3

\* The entries uploads are made of: a file, a file whose read rejects, a
\* file under an excluded directory, a file over the size limit (never
\* read) and a file of exactly the size limit at the top level.
UploadEntries ==
    { [pathParts |-> <<"src", "a.ts">>, size |-> 1, text |-> <<"a">>, readable |-> TRUE],
      [pathParts |-> <<"src", "b.ts">>, size |-> 3, text |-> <<"b">>, readable |-> FALSE],
      [pathParts |-> <<"src", "node_modules", "x.js">>, size |-> 1, text |-> <<"x">>,
       readable |-> TRUE],
      [pathParts |-> <<"big.bin">>, size |-> MAX_FILE_SIZE + 1, text |-> <<"c">>,
       readable |-> FALSE],
      [pathParts |-> <<"README">>, size |-> MAX_FILE_SIZE, text |-> <<"d">>,
       readable |-> TRUE] }

\* most batches of YIELD_EVERY entries in a large upload
MaxBatches == 1

\* The entry of index k of a large project: a source file, a file of an
\* installed dependency, or a file over the size limit; in a bundle, the
\* entries whose index line 704 selects are build output and the others are
\* over the size limit.
BigEntry(pattern, k) ==
    CASE pattern = "sources" ->
            [pathParts |-> <<"src", ToString(k)>>, size |-> 1, text |-> <<"s">>,
             readable |-> TRUE]
      [] pattern = "dependencies" ->
            [pathParts |-> <<"node_modules", ToString(k)>>, size |-> 1,
             text |-> <<"m">>, readable |-> TRUE]
      [] pattern = "videos" ->
            [pathParts |-> <<"media", ToString(k)>>, size |-> MAX_FILE_SIZE + 1,
             text |-> <<"v">>, readable |-> TRUE]
      [] pattern = "bundle" ->
            [pathParts |-> <<IF YieldsAfter(k) THEN "dist" ELSE "media", ToString(k)>>,
             size |-> MAX_FILE_SIZE + 1, text |-> <<"v">>, readable |-> TRUE]

BigUploads ==
    { [k \in 1..n |-> BigEntry(pattern, k - 1)] :
        pattern \in {"sources", "dependencies", "videos", "bundle"},
        n \in {b * YIELD_EVERY + 2 : b \in 1..MaxBatches} }

\* the tree on display when the upload starts: none, or that of an earlier
\* upload
EarlierTrees ==
    { <<>>,
      << [name |-> "old.txt", path |-> <<"old.txt">>, kind |-> "file",
          content |-> Some(<<"o">>)] >> }

UploadIdle ==
    /\ uploadedFiles = <<>>
    /\ ui = 0
    /\ root = <<>>
    /\ upFiles = <<>>
    /\ sinceYield = 0
    /\ events = 0
    /\ upc = "idle"
    /\ calls = <<>>

\* lines 659-667
UploadEntry ==
    /\ uploadedFiles \in SeqsUpTo(UploadEntries, MaxEntries) \cup BigUploads
    /\ ui = 0
    /\ root = <<>>
    /\ upFiles \in EarlierTrees
    /\ sinceYield = 0
    /\ events = 0
    /\ upc = "loop"
    /\ calls = <<>>

\* ---- several handleFolderUpload calls in one session ----

\* The Upload Folder button (lines 915-918) stays enabled while a call is
\* suspended, so calls overlap. Each call has its own uploadedFiles, i and
\* root; setFiles writes the one tree on display. A call is suspended at
\* the read of line 695 ("read"), at the timer of line 705 ("yield"), has
\* reached line 708 ("set"), or is over ("done", "failed").

\* most calls in one session
MaxCalls == 2
\* most entries of a folder uploaded by one of several calls
MaxFolderEntries == 2

Folders == SeqsUpTo(UploadEntries, MaxFolderEntries) \ {<<>>}

\* lines 667-707: the call runs from the top of the loop to its next await
\* or to the end of the loop
RECURSIVE RunLoop(_)
RECURSIVE AfterEntry(_)
AfterEntry(c) ==
    IF YieldsAfter(c.ui)
    THEN [c EXCEPT !.ui = c.ui + 1, !.upc = "yield"]
    ELSE RunLoop([c EXCEPT !.ui = c.ui + 1])

RunLoop(c) ==
    IF c.ui >= Len(c.uploadedFiles) THEN [c EXCEPT !.upc = "set"]
    ELSE LET entry == c.uploadedFiles[c.ui + 1]
         IN  IF IsExcluded(entry) THEN AfterEntry(c)
             ELSE IF Reads(c.root, entry)
             THEN [c EXCEPT !.root = PushedBeforeRead(c.root, entry), !.upc = "read"]
             ELSE AfterEntry([c EXCEPT !.root = InsertFrom(c.root, entry, 1)])

\* line 708, when the call has left the loop, and lines 712-716
Settle(c) == IF c.upc = "set" THEN [c EXCEPT !.upc = "done"] ELSE c

ShownAfter(c) == IF c.upc = "set" THEN c.root ELSE upFiles

\* lines 659-666 and the loop up to the first await
CallStart ==
    \E folder \in Folders :
        /\ Len(calls) < MaxCalls
        /\ LET c == RunLoop([uploadedFiles |-> folder, ui |-> 0, root |-> <<>>,
                             upc |-> "loop",
                             overlaps |-> \E k \in 1..Len(calls) :
                                             calls[k].upc \in {"read", "yield"}])
           IN  /\ calls' = Append(calls, Settle(c))
               /\ upFiles' = ShownAfter(c)
        /\ UNCHANGED <<uploadedFiles, ui, root, sinceYield, events, upc>>
        /\ UNCHANGED <<diffVars, patchVars, sessionVars, contextVars, extractVars, scrapeVars>>

\* line 695: file.text() resolves and the call runs on
CallReadResolves ==
    \E k \in 1..Len(calls) :
        /\ calls[k].upc = "read"
        /\ calls[k].uploadedFiles[calls[k].ui + 1].readable
        /\ LET read == [calls[k] EXCEPT
                           !.root[Len(calls[k].root)].content =
                               Some(calls[k].uploadedFiles[calls[k].ui + 1].text)]
               c == AfterEntry(read)
           IN  /\ calls' = [calls EXCEPT ![k] = Settle(c)]
               /\ upFiles' = ShownAfter(c)
        /\ UNCHANGED <<uploadedFiles, ui, root, sinceYield, events, upc>>
        /\ UNCHANGED <<diffVars, patchVars, sessionVars, contextVars, extractVars, scrapeVars>>

\* line 695: file.text() rejects; lines 709-716
CallReadRejects ==
    \E k \in 1..Len(calls) :
        /\ calls[k].upc = "read"
        /\ ~calls[k].uploadedFiles[calls[k].ui + 1].readable
        /\ calls' = [calls EXCEPT ![k].upc = "failed"]
        /\ UNCHANGED <<uploadedFiles, ui, root, upFiles, sinceYield, events, upc>>
        /\ UNCHANGED <<diffVars, patchVars, sessionVars, contextVars, extractVars, scrapeVars>>

\* line 705: the timer fires and the call runs on
CallTimerFires ==
    \E k \in 1..Len(calls) :
        /\ calls[k].upc = "yield"
        /\ LET c == RunLoop([calls[k] EXCEPT !.upc = "loop"])
           IN  /\ calls' = [calls EXCEPT ![k] = Settle(c)]
               /\ upFiles' = ShownAfter(c)
        /\ UNCHANGED <<uploadedFiles, ui, root, sinceYield, events, upc>>
        /\ UNCHANGED <<diffVars, patchVars, sessionVars, contextVars, extractVars, scrapeVars>>

-----------------------------------------------------------------------------
(* handleScrape, App.tsx 105-142; setupWebSocket, websocket.ts 5-24;       *)
(* scrapeModels, scraper.ts 100-244                                        *)

\* the statuses of the progress events of a scrape that succeeds, in order
\* (scraper.ts 103, 106, 109, 112, 115 and 225)
ProgressStatuses ==
    <<"started", "fetching", "fetching", "fetching", "processing", "completed">>

\* websocket.ts 11-13: the event reaches the sockets whose handler is
\* registered when it is emitted
Broadcast(status) == IF subscribed THEN Append(wire, status) ELSE wire

\* App.tsx 105-142 up to the return of the handler; the button is disabled
\* while isScrapingActive (line 192)
HandleScrape ==
    /\ ~isScrapingActive
    /\ request = "none"
    /\ isScrapingActive' = TRUE
    /\ wsRef' = "connecting"
    /\ request' = "sent"
    /\ UNCHANGED <<subscribed, scraper, emitted, wire>>
    /\ UNCHANGED <<diffVars, patchVars, sessionVars, contextVars, extractVars, uploadVars>>

\* the request reaches the backend, which calls scrapeModels
ServeRequest ==
    /\ request = "sent"
    /\ request' = "served"
    /\ scraper' = "running"
    /\ UNCHANGED <<isScrapingActive, wsRef, subscribed, emitted, wire>>
    /\ UNCHANGED <<diffVars, patchVars, sessionVars, contextVars, extractVars, uploadVars>>

\* the request does not reach the backend: the catch of App.tsx 131-140
\* runs when the failure arrives
RequestFails ==
    /\ request = "sent"
    /\ request' = "failed"
    /\ UNCHANGED <<isScrapingActive, wsRef, subscribed, scraper, emitted, wire>>
    /\ UNCHANGED <<diffVars, patchVars, sessionVars, contextVars, extractVars, uploadVars>>

\* scraper.ts 103-231: the next progress event; after "completed" the
\* function returns and the request is answered
Emit ==
    /\ scraper = "running"
    /\ emitted < Len(ProgressStatuses)
    /\ wire' = Broadcast(ProgressStatuses[emitted + 1])
    /\ emitted' = emitted + 1
    /\ IF ProgressStatuses[emitted + 1] = "completed"
       THEN scraper' = "completed" /\ request' = "ok"
       ELSE UNCHANGED <<scraper, request>>
    /\ UNCHANGED <<isScrapingActive, wsRef, subscribed>>
    /\ UNCHANGED <<diffVars, patchVars, sessionVars, contextVars, extractVars, uploadVars>>

\* scraper.ts 234-243: a fetch or the database throws; the error event is
\* emitted and the request fails
ScrapeThrows ==
    /\ scraper = "running"
    /\ emitted > 0
    /\ emitted < Len(ProgressStatuses)
    /\ wire' = Broadcast("error")
    /\ scraper' = "failed"
    /\ request' = "failed"
    /\ UNCHANGED <<isScrapingActive, wsRef, subscribed, emitted>>
    /\ UNCHANGED <<diffVars, patchVars, sessionVars, contextVars, extractVars, uploadVars>>

\* websocket.ts 8-16: the socket of App.tsx 110 connects and its handler is
\* registered
WsConnects ==
    /\ wsRef = "connecting"
    /\ wsRef' = "open"
    /\ subscribed' = TRUE
    /\ UNCHANGED <<isScrapingActive, scraper, emitted, wire, request>>
    /\ UNCHANGED <<diffVars, patchVars, sessionVars, contextVars, extractVars, uploadVars>>

\* the socket cannot connect: onclose, App.tsx 126-128
WsConnectFails ==
    /\ wsRef = "connecting"
    /\ wsRef' = "closed"
    /\ isScrapingActive' = FALSE
    /\ UNCHANGED <<subscribed, scraper, emitted, wire, request>>
    /\ UNCHANGED <<diffVars, patchVars, sessionVars, contextVars, extractVars, uploadVars>>

\* onmessage, App.tsx 112-124; close() runs onclose (126-128) and the
\* backend removes the handler (websocket.ts 18-22)
OnMessage ==
    /\ wsRef = "open"
    /\ wire # <<>>
    /\ IF Head(wire) \in {"completed", "error"}
       THEN /\ isScrapingActive' = FALSE
            /\ wsRef' = "closed"
            /\ subscribed' = FALSE
            /\ wire' = <<>>
       ELSE /\ wire' = Tail(wire)
            /\ UNCHANGED <<isScrapingActive, wsRef, subscribed>>
    /\ UNCHANGED <<scraper, emitted, request>>
    /\ UNCHANGED <<diffVars, patchVars, sessionVars, contextVars, extractVars, uploadVars>>

\* App.tsx 130-141: the answer to the request arrives; only a failure has a
\* handler
ResponseArrives ==
    /\ request \in {"ok", "failed"}
    /\ request' = "done"
    /\ isScrapingActive' = IF request = "failed" THEN FALSE ELSE isScrapingActive
    /\ UNCHANGED <<wsRef, subscribed, scraper, emitted, wire>>
    /\ UNCHANGED <<diffVars, patchVars, sessionVars, contextVars, extractVars, uploadVars>>

\* App.tsx 30 and 51, and the backend before any request
ScrapeIdle ==
    /\ isScrapingActive = FALSE
    /\ wsRef = "none"
    /\ subscribed = FALSE
    /\ scraper = "idle"
    /\ emitted = 0
    /\ wire = <<>>
    /\ request = "none"

-----------------------------------------------------------------------------
(* Specifications                                                          *)

ToolsIdle == ContextIdle /\ ExtractIdle /\ UploadIdle /\ ScrapeIdle

InitDiff == DiffEntry /\ PatchIdle /\ SessionIdle /\ ToolsIdle
NextDiff == DiffUnchanged \/ DiffAdded \/ DiffRemoved \/ DiffReturn
SpecDiff == InitDiff /\ [][NextDiff]_vars
\* computeDiff is synchronous: once called, the loop runs on while one of
\* its branches can be taken and the function returns when none is left
SpecDiffRuns == SpecDiff /\ WF_vars(NextDiff)

InitPatch == PatchEntry /\ DiffIdle /\ SessionIdle /\ ToolsIdle
NextPatch == PatchPrepend \/ PatchReplace \/ PatchMiss \/ PatchSkipLine \/ PatchReturn
SpecPatch == InitPatch /\ [][NextPatch]_vars

Init == SessionEntry /\ DiffIdle /\ PatchIdle /\ ToolsIdle
Next ==
    \/ SendClick \/ SendEnter
    \/ ReplyNoCandidate \/ ReplyAutoApply \/ ReplyPending \/ RelayFail
    \/ Reject \/ Apply \/ AlwaysAllow
    \/ ToggleMode \/ FileClick \/ EditorChange \/ ChatInputChange \/ ClearChat
    \/ UploadStart \/ UploadFinish \/ UploadAbort
Spec == Init /\ [][Next]_vars

InitReupload == ReuploadEntry /\ DiffIdle /\ PatchIdle /\ ToolsIdle
SpecReupload == InitReupload /\ [][Next]_vars

\* the handlers of ChatEditor run while it is mounted
InitSessions == UnmountedEntry /\ DiffIdle /\ PatchIdle /\ ToolsIdle
NextSessions ==
    \/ Mount
    \/ Unmount
    \/ session.mounted /\ SendClick
    \/ session.mounted /\ SendEnter
    \/ session.mounted /\ ReplyNoCandidate
    \/ session.mounted /\ ReplyAutoApply
    \/ session.mounted /\ ReplyPending
    \/ session.mounted /\ RelayFail
    \/ session.mounted /\ Reject
    \/ session.mounted /\ Apply
    \/ session.mounted /\ AlwaysAllow
    \/ session.mounted /\ ToggleMode
    \/ session.mounted /\ FileClick
    \/ session.mounted /\ EditorChange
    \/ session.mounted /\ ChatInputChange
    \/ session.mounted /\ ClearChat
    \/ session.mounted /\ UploadStart
    \/ session.mounted /\ UploadFinish
    \/ session.mounted /\ UploadAbort
SpecSessions == InitSessions /\ [][NextSessions]_vars

InitContext ==
    ContextEntry /\ DiffIdle /\ PatchIdle /\ SessionIdle /\ ExtractIdle /\ UploadIdle
        /\ ScrapeIdle
NextContext == CtxEmit \/ CtxListOnly \/ CtxReturn
SpecContext == InitContext /\ [][NextContext]_vars

InitExtract ==
    ExtractEntry /\ DiffIdle /\ PatchIdle /\ SessionIdle /\ ContextIdle /\ UploadIdle
        /\ ScrapeIdle
NextExtract == ExtractMatch \/ ExtractReturn
SpecExtract == InitExtract /\ [][NextExtract]_vars

InitUpload ==
    UploadEntry /\ DiffIdle /\ PatchIdle /\ SessionIdle /\ ContextIdle /\ ExtractIdle
        /\ ScrapeIdle
NextUpload ==
    \/ UploadNothing \/ UploadSkipExcluded \/ UploadInsert \/ UploadResume
    \/ UploadReadFails \/ UploadSetFiles \/ UploadInterleavedEdit
SpecUpload == InitUpload /\ [][NextUpload]_vars

\* The backend runs on, the network delivers what was sent and the browser
\* runs the handlers of what arrives; failures need not happen.
InitScrape == DiffIdle /\ PatchIdle /\ SessionIdle /\ ToolsIdle
NextScrape ==
    \/ HandleScrape \/ ServeRequest \/ RequestFails \/ Emit \/ ScrapeThrows
    \/ WsConnects \/ WsConnectFails \/ OnMessage \/ ResponseArrives
SpecScrape ==
    /\ InitScrape /\ [][NextScrape]_vars
    /\ WF_vars(ServeRequest \/ RequestFails)
    /\ WF_vars(Emit \/ ScrapeThrows)
    /\ WF_vars(WsConnects \/ WsConnectFails)
    /\ WF_vars(OnMessage)
    /\ WF_vars(ResponseArrives)

InitCalls == DiffIdle /\ PatchIdle /\ SessionIdle /\ ToolsIdle
NextCalls == CallStart \/ CallReadResolves \/ CallReadRejects \/ CallTimerFires
SpecCalls == InitCalls /\ [][NextCalls]_vars

-----------------------------------------------------------------------------
(* Properties                                                              *)

\* the contents of the DiffLines of d whose type is in types, in order
RECURSIVE KeptLines(_, _)
KeptLines(d, types) ==
    IF Len(d) = 0 THEN <<>>
    ELSE (IF d[1].type \in types THEN <<d[1].content>> ELSE <<>>)
         \o KeptLines(Tail(d), types)

DiffTypes(d) == {d[k].type : k \in 1..Len(d)}

\* a reply of the relay resumes the suspended call k with the text reply
IsReplyStep(k, reply) ==
    \E branch \in {"none", "apply", "pending"} : RelayReply(k, reply, branch)

HasCandidate(reply) == CandidateOf[reply] # Null /\ CandidateOf[reply][1] # <<>>

\* C1: a candidate that arrives while the mode is ask and a file is selected
\* becomes the pending edit and changes no FileNode, and while an edit is
\* pending no FileNode content changes except by Apply or Always Allow.
C1_AskCandidateWaitsForReview ==
    [][ /\ \A k \in 1..Len(inflight), reply \in Replies :
              ( /\ IsReplyStep(k, reply)
                /\ HasCandidate(reply)
                /\ autoEditMode = "ask"
                /\ selectedFile # Null )
              => ( /\ pendingCode' = CandidateOf[reply]
                   /\ nodes' = nodes )
        /\ ( /\ pendingCode # Null
             /\ \E id \in 1..Len(nodes) : nodes'[id].content # nodes[id].content )
           => (Apply \/ AlwaysAllow)
      ]_vars

\* C2: at most one relay request is in flight at any time.
C2_AtMostOneInFlight == Len(inflight) <= 1

\* C3: a candidate that arrives while the mode is always and a file is
\* selected is applied once to the selected file, the confirmation message
\* follows the reply in the conversation, and no edit is left pending.
C3_AlwaysCandidateAppliedOnce ==
    [][ \A k \in 1..Len(inflight), reply \in Replies :
            ( /\ IsReplyStep(k, reply)
              /\ HasCandidate(reply)
              /\ autoEditMode = "always"
              /\ selectedFile # Null )
            => ( /\ editContent' = NewCode(CandidateOf[reply][1], selectedFile)
                 /\ chatMessages' = chatMessages \o
                        << Msg("assistant", reply), Msg("assistant", CodeUpdatedText) >>
                 /\ pendingCode' = Null )
      ]_vars

\* C4: in the finished diff, the added and unchanged lines in order are the
\* lines of the new text, and the removed and unchanged lines in order are
\* the lines of the old text; joined by newlines they give back the texts.
C4_DiffReconstructsBothTexts ==
    dpc = "done" =>
        /\ KeptLines(diff, {"added", "unchanged"}) = SplitLines(newText)
        /\ KeptLines(diff, {"removed", "unchanged"}) = SplitLines(oldText)
        /\ JoinLines(KeptLines(diff, {"added", "unchanged"})) = newText
        /\ JoinLines(KeptLines(diff, {"removed", "unchanged"})) = oldText

C4_Witness ==
    /\ dpc = "done"
    /\ DiffTypes(diff) = {"added", "removed", "unchanged"}
    /\ Len(oldLines) >= 2 /\ Len(newLines) >= 2

Line1 == <<"l", "i", "n", "e", "1">>
Line2 == <<"l", "i", "n", "e", "2">>
Line2x == <<"l", "i", "n", "e", "2", "x">>

IsScenarioDiff == dpc = "done" /\ oldText = ScenarioOld /\ newText = ScenarioNew

\* C5 as stated: the diff of "line1\nline2" against "line1\nline2x" is
\* unchanged(line1), removed(line2), added(line2x), in that order.
C5_ScenarioRemovedBeforeAdded ==
    IsScenarioDiff =>
        diff = << DiffLine("unchanged", Line1), DiffLine("removed", Line2),
                  DiffLine("added", Line2x) >>

\* C5 amended: the diff of "line1\nline2" against "line1\nline2x" is
\* unchanged(line1), added(line2x), removed(line2), in that order.
C5_ScenarioAddedBeforeRemoved ==
    IsScenarioDiff =>
        diff = << DiffLine("unchanged", Line1), DiffLine("added", Line2x),
                  DiffLine("removed", Line2) >>

C5_Witness == IsScenarioDiff /\ Len(diff) = 3

\* C6: the diff of a text against itself is exactly one unchanged line per
\* line of the text, in order.
C6_SelfDiffAllUnchanged ==
    (dpc = "done" /\ oldText = newText) =>
        diff = [k \in 1..Len(SplitLines(oldText)) |->
                    DiffLine("unchanged", SplitLines(oldText)[k])]

C6_Witness ==
    /\ dpc = "done"
    /\ oldText = newText
    /\ Len(diff) >= 3
    /\ \E k \in 1..Len(diff) : diff[k].content = <<>>

\* C7: when the non-empty search text of a block occurs in the running
\* content, the content becomes what came before the first occurrence, the
\* replace text verbatim, and what came after that occurrence.
C7_FirstOccurrenceReplacedVerbatim ==
    outcome = "replace" =>
        LET p == IndexOf(prevResult, searchText)
        IN  result = SubSeq(prevResult, 1, p) \o replaceText
                        \o Slice(prevResult, p + Len(searchText))

\* C8: a block whose search text is empty or only white space makes the
\* running content the replace text, a newline, and the previous content.
C8_EmptySearchPrepends ==
    (blockNo > 0 /\ Trim(searchText) = <<>>) =>
        /\ outcome = "prepend"
        /\ result = replaceText \o <<NL>> \o prevResult

C8_Witness ==
    /\ outcome = "prepend"
    /\ searchText = <<" ">>
    /\ replaceText = <<"$", "$">>
    /\ prevResult # <<>>
    /\ blockNo = 2

\* C9: every block is matched against, and applied to, the running content
\* left by the blocks before it.
C9_BlocksSeeEarlierBlocks ==
    [][ blockNo' = blockNo + 1 =>
            /\ prevResult' = result
            /\ IF Trim(searchText') = <<>>
               THEN result' = replaceText' \o <<NL>> \o result
               ELSE IF StrIncludes(result, searchText')
               THEN /\ outcome' = "replace"
                    /\ result' = StringReplace(result, searchText', replaceText')
               ELSE /\ outcome' = "miss"
                    /\ result' = result
      ]_vars

\* a later block has matched text that only an earlier block put there
C9_Witness ==
    /\ blockNo = 2
    /\ outcome = "replace"
    /\ ~StrIncludes(currentCode, searchText)
    /\ result # prevResult

\* the blocks of a candidate, as lines 782-796 delimit them
RECURSIVE BlocksFrom(_, _)
BlocksFrom(ls, i) ==
    IF i >= Len(ls) THEN <<>>
    ELSE IF IsSearchLine(ls, i)
    THEN <<ParseBlock(ls, i)>> \o BlocksFrom(ls, ParseBlock(ls, i).next)
    ELSE BlocksFrom(ls, i + 1)

IsMiss(content, block) ==
    Trim(block.searchText) # <<>> /\ ~StrIncludes(content, block.searchText)

\* C10: a block whose non-empty search text does not occur leaves the running
\* content as it was, the scan goes on to the remaining blocks, and a
\* candidate whose blocks all miss returns the original content.
C10_MissIsSkipped ==
    /\ outcome = "miss" => (result = prevResult /\ ppc \in {"loop", "done"})
    /\ ppc = "done" =>
          /\ blockNo = Len(BlocksFrom(lines, 0))
          /\ (\A k \in 1..blockNo : IsMiss(currentCode, BlocksFrom(lines, 0)[k]))
                => result = currentCode

\* a miss, then a block that is applied
C10_Witness ==
    /\ ppc = "done"
    /\ blockNo = 2
    /\ IsMiss(currentCode, BlocksFrom(lines, 0)[1])
    /\ outcome = "replace"
    /\ result # currentCode

\* the candidate holds no SEARCH marker (line 812 false)
IsFullText(code) == ~StrIncludes(code, SearchMarker)

\* after the step, the editor holds code, and the node at the path of sel in
\* the tree applyEdit was given, which is the tree now shown, holds code
FullyReplaced(code, sel, tree) ==
    /\ editContent' = code
    /\ files' = tree
    /\ \E k \in 1..Len(tree) :
          /\ nodes'[tree[k]].path = nodes[sel[1]].path
          /\ nodes'[tree[k]].content = code

RECURSIVE EmittedLength(_)
EmittedLength(blocks) ==
    IF Len(blocks) = 0 THEN 0
    ELSE Len(blocks[1].snippet.marker) + blocks[1].snippet.text.len
            + EmittedLength(Tail(blocks))

\* the blocks emitted for the node at walk position k (its path is k)
BlocksOf(k) == SelectSeq(contentOverview, LAMBDA b : b.path = ctxNodes[k].path)

\* the characters emitted for the nodes visited before the node at position k
EmittedBefore(k) ==
    EmittedLength(SelectSeq(contentOverview, LAMBDA b : b.path < ctxNodes[k].path))

\* C12: the snippets emitted in the contents section never sum to more than
\* the global budget of 50 000 characters.
C12_EmittedWithinBudget == EmittedLength(contentOverview) <= CONTEXT_LIMIT

\* the block the contents section should hold for a file node
ExpectedSnippet(node) ==
    IF node.content[1].len <= SNIPPET_LIMIT
    THEN [text |-> node.content[1], marker |-> <<>>]
    ELSE [text |-> Body(node.path, SNIPPET_LIMIT), marker |-> TruncatedMarker]

\* C13: every file node visited while fewer characters than the budget were
\* emitted has one block in the contents section, carrying its path and its
\* content, cut to 5 000 characters and marked when it is longer.
C13_FileBelowBudgetIsEmitted ==
    \A k \in 1..ctxPos :
        (ctxNodes[k].kind = "file" /\ EmittedBefore(k) < CONTEXT_LIMIT)
            => BlocksOf(k) = << [path |-> ctxNodes[k].path,
                                snippet |-> ExpectedSnippet(ctxNodes[k])] >>

\* C14: a file visited after the emitted characters have reached the budget
\* gets no block, and the structure section holds one line for every node
\* visited, directory or file, in walk order.
C14_BudgetStopsBodiesNotListing ==
    /\ \A k \in 1..ctxPos :
          EmittedBefore(k) >= CONTEXT_LIMIT => BlocksOf(k) = <<>>
    /\ structure = [k \in 1..ctxPos |->
                        [indent |-> ctxNodes[k].depth, kind |-> ctxNodes[k].kind,
                         name |-> ctxNodes[k].name]]

\* the budget is met exactly, and a directory and a file with a body follow
C14_Witness ==
    /\ cpc = "done"
    /\ EmittedLength(contentOverview) = CONTEXT_LIMIT
    /\ \E k \in 2..Len(ctxNodes) :
          /\ ctxNodes[k - 1].kind = "directory"
          /\ ctxNodes[k].kind = "file"
          /\ ctxNodes[k].content[1].len > 0
          /\ BlocksOf(k) = <<>>
    /\ Len(structure) = Len(ctxNodes)

\* the positions of the fences of a text, left to right, from position p on
RECURSIVE FencesFrom(_, _)
FencesFrom(text, p) ==
    IF p + 3 > Len(text) THEN <<>>
    ELSE IF OccursAt(text, Fence, p) THEN <<p>> \o FencesFrom(text, p + 3)
    ELSE FencesFrom(text, p + 1)

\* a text holds a fenced block when it holds an opening and a closing fence
HasFencedBlock(text) == Len(FencesFrom(text, 0)) >= 2

\* what lies between the fences of the last block: fences pair up in
\* document order
LastBlockInside(text) ==
    LET fences == FencesFrom(text, 0)
        n      == 2 * (Len(fences) \div 2)
    IN  SubSeq(text, fences[n - 1] + 4, fences[n])

\* the body of the last block: what follows the line of the language tag
LastBlockBody(text) ==
    LET inside == LastBlockInside(text)
    IN  IF Includes(inside, NL) THEN Slice(inside, IndexOf(inside, <<NL>>) + 1)
        ELSE <<>>

\* C15: for a reply that holds fenced blocks the candidate is the trimmed
\* body of the last block, without fences and language tag; there is no
\* candidate only when the reply holds no fenced block.
C15_LastFencedBlockIsCandidate ==
    xpc = "done" =>
        reResult = IF HasFencedBlock(reContent)
                   THEN Some(Trim(LastBlockBody(reContent)))
                   ELSE Null

\* handleSendMessage is called, by the button or the key, with a message to
\* send (it gets past the test of line 835)
IsSendStep == (SendClick \/ SendEnter) /\ Trim(chatInput) # <<>>

C17_OneCreditPerPaidCompletion ==
    [][ IF \E k \in 1..Len(inflight), reply \in Replies : IsReplyStep(k, reply)
        THEN credits' = IF IsFullFree(model) THEN credits ELSE credits - 1
        ELSE credits' = credits
      ]_vars

\* a paid completion has been charged and a refused send has followed it
C17_Witness ==
    /\ ~IsFullFree(model)
    /\ credits = 0
    /\ \E i, j \in 1..Len(chatMessages) :
          /\ i < j
          /\ chatMessages[i].role = "assistant"
          /\ chatMessages[i].content \in Replies
          /\ chatMessages[j] = Msg("assistant", OutOfCreditsText)

\* the catalogue marks a model as free in its name or in its license tag
IsMarkedFree(m) ==
    \/ StrIncludes(ToLowerCase(m.name), <<"f", "r", "e", "e">>)
    \/ ToLowerCase(m.license) = <<"f", "r", "e", "e">>

\* C18: with a model marked as free, or with an API key of the user, every
\* send reaches the relay, whatever the credit balance.
C18_FreeOrOwnKeyNeverBlocked ==
    [][ (IsSendStep /\ (IsMarkedFree(model) \/ apiKey # <<>>))
            => /\ Len(inflight') = Len(inflight) + 1
               /\ chatMessages' = Append(chatMessages, Msg("user", chatInput))
      ]_vars

\* C19: a failed relay call appends one assistant message that starts with
\* Error:, starts no other call, sets isTyping to false and leaves the tree,
\* the pending edit and the credits as they were.
C19_RelayFailureIsSurfacedOnce ==
    [][ RelayFail
            => /\ Len(chatMessages') = Len(chatMessages) + 1
               /\ SubSeq(chatMessages', 1, Len(chatMessages)) = chatMessages
               /\ chatMessages'[Len(chatMessages')].role = "assistant"
               /\ chatMessages'[Len(chatMessages')].content[1] = "Error: "
               /\ Len(inflight') = Len(inflight) - 1
               /\ isTyping' = FALSE
               /\ nodes' = nodes /\ files' = files
               /\ pendingCode' = pendingCode
               /\ credits' = credits
      ]_vars

\* a call has failed and a later message has been sent
C19_Witness ==
    /\ \E i, j \in 1..Len(chatMessages) :
          /\ i < j
          /\ chatMessages[i].role = "assistant"
          /\ chatMessages[i].content[1] = "Error: "
          /\ chatMessages[j].role = "user"
    /\ Len(inflight) = 1
    /\ isTyping

\* the entry can be ingested: it is not excluded, and its content can be
\* read or is never read because the file is too large
IsIngestible(entry) ==
    ~IsExcluded(entry) /\ (entry.readable \/ entry.size > MAX_FILE_SIZE)

\* C20: when the call has ended, the tree on display holds a file node for
\* every entry that is not excluded and whose content could be read,
\* whatever happened to the other entries.
C20_UnreadableFileAloneIsSkipped ==
    (upc \in {"done", "failed"} /\ Len(uploadedFiles) > 0) =>
        \A k \in 1..Len(uploadedFiles) :
            IsIngestible(uploadedFiles[k]) =>
                \E n \in 1..Len(upFiles) :
                    /\ upFiles[n].path = uploadedFiles[k].pathParts
                    /\ upFiles[n].kind = "file"

\* C21: at no point of an ingestion have more than YIELD_EVERY entries been
\* processed since the call last gave control back to the event loop (or
\* since it started).
C21_YieldsEveryFiftyEntries == sinceYield <= YIELD_EVERY

\* path p leads to path q: p is q or a directory above q
IsPrefix(p, q) == Len(p) <= Len(q) /\ SubSeq(q, 1, Len(p)) = p

\* The tree one pass over the entries builds, with no suspension: one node
\* for every path at or above a kept entry, made from the first entry that
\* mentions the path, the nodes in the order of these entries and, for one
\* entry, from the top directory down.
IsFirstMention(entries, k, j) ==
    \A q \in 1..(k - 1) :
        IsExcluded(entries[q])
            \/ ~IsPrefix(SubSeq(entries[k].pathParts, 1, j), entries[q].pathParts)

NodeOrigins(entries) ==
    UNION { { <<k, j>> : j \in {j \in 1..Len(entries[k].pathParts) :
                                    IsFirstMention(entries, k, j)} } :
            k \in {k \in 1..Len(entries) : ~IsExcluded(entries[k])} }

ComesBefore(o, p) == o[1] < p[1] \/ (o[1] = p[1] /\ o[2] < p[2])

BuiltTree(entries) ==
    LET origins == NodeOrigins(entries)
    IN  [n \in 1..Cardinality(origins) |->
            LET o == CHOOSE o \in origins :
                        Cardinality({p \in origins : ComesBefore(p, o)}) = n - 1
            IN  NewNode(entries[o[1]], o[2])]

\* C22: the tree an ingestion hands to the component is the tree one pass
\* without suspension builds from the same entries, whatever tree was on
\* display before and whatever ran while the ingestion was suspended.
C22_TreeDependsOnlyOnEntries ==
    (upc = "done" /\ Len(uploadedFiles) > 0) =>
        upFiles = BuiltTree(uploadedFiles)

\* an ingestion that suspended, saw the tree on display edited meanwhile,
\* and ended with a tree of several nodes
C22_Witness ==
    /\ upc = "done"
    /\ events > 0
    /\ Len(upFiles) >= 3
    /\ upFiles = BuiltTree(uploadedFiles)

\* the tree holds a file node at the path of the entry
HasFileNode(tree, entry) ==
    \E n \in 1..Len(tree) : tree[n].path = entry.pathParts /\ tree[n].kind = "file"

\* some part of the path of the entry is an excluded directory name
HasExcludedPart(entry) ==
    {entry.pathParts[j] : j \in 1..Len(entry.pathParts)} \cap EXCLUDED_DIRS # {}

\* C23: of the entries the loop has gone through, those with an excluded
\* path part have left no node in the tree under construction and all the
\* others have a file node at their path; no node of that tree, and so of
\* the tree handed over at the end, bears an excluded name.
C23_ExcludedEntriesAndOnlyThoseAreSkipped ==
    /\ \A k \in 1..ui :
          IF HasExcludedPart(uploadedFiles[k])
          THEN ~HasNode(root, uploadedFiles[k].pathParts)
          ELSE HasFileNode(root, uploadedFiles[k])
    /\ \A n \in 1..Len(root) : root[n].name \notin EXCLUDED_DIRS
    /\ (upc = "done" /\ Len(uploadedFiles) > 0) => upFiles = root

\* a finished ingestion that skipped src/node_modules/x.js and kept another
\* file of src
C23_Witness ==
    /\ upc = "done"
    /\ \E k \in 1..Len(uploadedFiles) :
          /\ uploadedFiles[k].pathParts = <<"src", "node_modules", "x.js">>
          /\ ~HasNode(upFiles, uploadedFiles[k].pathParts)
    /\ \E k \in 1..Len(uploadedFiles) :
          /\ uploadedFiles[k].pathParts = <<"src", "a.ts">>
          /\ HasFileNode(upFiles, uploadedFiles[k])

\* the number of entries the loop has entered: those gone through and the
\* one whose read rejected
Entered == IF upc = "failed" THEN ui + 1 ELSE ui

\* the positions, among the entries entered, of the entries kept that lie
\* at or under the path
Mentions(path) ==
    {k \in 1..Entered : ~IsExcluded(uploadedFiles[k])
                           /\ IsPrefix(path, uploadedFiles[k].pathParts)}

\* the place in the tree of the first node with the path
PositionOf(path) ==
    CHOOSE m \in 1..Len(root) :
        root[m].path = path /\ \A n \in 1..(m - 1) : root[n].path # path

FirstMention(path) == CHOOSE k \in Mentions(path) : \A q \in Mentions(path) : k <= q

\* C24: in the tree under construction no two nodes have the same path;
\* every directory above a kept entry is one directory node, created before
\* the nodes under it; nodes stand in the order in which the entries first
\* mention them, so the children of every directory do; and inserting again
\* any entry already entered gives the same tree.
C24_PathsUniqueAndInsertionIdempotent ==
    /\ \A m, n \in 1..Len(root) : root[m].path = root[n].path => m = n
    /\ \A k \in Mentions(<<>>) :
          \A j \in 1..(Len(uploadedFiles[k].pathParts) - 1) :
              /\ HasNode(root, SubSeq(uploadedFiles[k].pathParts, 1, j))
              /\ HasNode(root, SubSeq(uploadedFiles[k].pathParts, 1, j + 1))
              /\ root[PositionOf(SubSeq(uploadedFiles[k].pathParts, 1, j))].kind
                     = "directory"
              /\ PositionOf(SubSeq(uploadedFiles[k].pathParts, 1, j))
                     < PositionOf(SubSeq(uploadedFiles[k].pathParts, 1, j + 1))
    /\ \A n \in 1..Len(root) : Mentions(root[n].path) # {}
    /\ \A n \in 2..Len(root) :
          FirstMention(root[n - 1].path) <= FirstMention(root[n].path)
    /\ \A k \in Mentions(<<>>) : InsertFrom(root, uploadedFiles[k], 1) = root

\* a finished ingestion in which src/a.ts came twice and README between:
\* one src directory, one file under it, README after them
C24_Witness ==
    /\ upc = "done"
    /\ Len(uploadedFiles) = 3
    /\ uploadedFiles[1].pathParts = <<"src", "a.ts">>
    /\ uploadedFiles[2].pathParts = <<"README">>
    /\ uploadedFiles[3].pathParts = <<"src", "a.ts">>
    /\ Len(upFiles) = 3
    /\ upFiles[1].path = <<"src">>
    /\ upFiles[2].path = <<"src", "a.ts">>
    /\ upFiles[3].path = <<"README">>

\* 1 MiB, in bytes
OneMiB == 1048576

\* the text shown in place of a file of 1 048 577 bytes, which is 1.00 MB
\* to two decimals
PlaceholderJustOver ==
    <<"[File too large to display: ", "1", ".", "0", "0", "MB]">>

\* C25: every file node of the tree under construction comes from an entry
\* at its path; it holds the too-large placeholder with the size of that
\* entry if the entry is larger than 1 MiB, and the full text of the entry
\* if not, a file of exactly 1 MiB included.
C25_PlaceholderIffLargerThanOneMiB ==
    \A n \in 1..Len(root) :
        (root[n].kind = "file" /\ root[n].content # Null) =>
            /\ Mentions(root[n].path) # {}
            /\ LET entry == uploadedFiles[FirstMention(root[n].path)]
               IN  /\ entry.size > OneMiB =>
                          /\ root[n].content = Some(TooLargeText(entry.size))
                          /\ entry.size = OneMiB + 1 =>
                                 root[n].content[1] = PlaceholderJustOver
                   /\ entry.size <= OneMiB =>
                          /\ root[n].content = Some(entry.text)
                          /\ root[n].content[1] # TooLargeText(entry.size)

\* a finished ingestion with a file of exactly 1 MiB kept whole and a file
\* one byte larger replaced by the placeholder
C25_Witness ==
    /\ upc = "done"
    /\ \E m, n \in 1..Len(upFiles) :
          /\ upFiles[m].path = <<"README">>
          /\ upFiles[m].content = Some(<<"d">>)
          /\ upFiles[n].path = <<"big.bin">>
          /\ upFiles[n].content = Some(PlaceholderJustOver)
    /\ \E k \in 1..Len(uploadedFiles) :
          uploadedFiles[k].pathParts = <<"README">> /\ uploadedFiles[k].size = OneMiB

\* the content of the FileNode id changes in the step
ContentChanges(id) == nodes'[id].content # nodes[id].content

\* the step runs applyEdit: from the review overlay or from a reply
IsApplyStep == Apply \/ AlwaysAllow \/ ReplyAutoApply

\* C26: a step changes the content of a FileNode only if it runs applyEdit
\* and the node is at the path of the file selected at that moment; a step
\* that runs applyEdit leaves the tree on display made of the same nodes;
\* and typing in the editor changes no FileNode.
C26_OnlyApplyWritesSelectedNode ==
    [][ /\ \A id \in 1..Len(nodes) :
              ContentChanges(id) =>
                  /\ IsApplyStep
                  /\ selectedFile # Null
                  /\ nodes[id].path = nodes[selectedFile[1]].path
        /\ IsApplyStep => files' = files
        /\ EditorChange => nodes' = nodes
      ]_vars

\* C27: Reject, taken while an edit is pending, leaves no edit pending and
\* changes no FileNode, not the tree, the selection, the editor buffer, the
\* conversation or the permission mode, in the session or stored.
C27_RejectOnlyClearsPending ==
    [][ Reject
            => /\ pendingCode # Null
               /\ pendingCode' = Null
               /\ nodes' = nodes /\ files' = files
               /\ selectedFile' = selectedFile
               /\ editContent' = editContent
               /\ chatMessages' = chatMessages
               /\ autoEditMode' = autoEditMode
               /\ storedMode' = storedMode
      ]_vars

\* the reply with a patch was the last thing said, nothing is pending, no
\* request is in flight, and the selected file src/b.ts and the editor, in
\* which the user had typed, are as they were
C27_Witness ==
    /\ pendingCode = Null
    /\ autoEditMode = "ask"
    /\ inflight = <<>>
    /\ selectedFile # Null
    /\ nodes[selectedFile[1]].path = "src/b.ts"
    /\ nodes[selectedFile[1]].content = <<"a", NL, "a">>
    /\ editContent = <<"x">>
    /\ Len(chatMessages) = 2
    /\ chatMessages[2] = Msg("assistant", ReplyPatch)

\* what one run of the Patch Applier makes of the content with a candidate
AppliedOnce(content, code) ==
    IF StrIncludes(code, SearchMarker) THEN applySearchReplace(content, code) ELSE code

\* the step applies the pending candidate once to the selected file: the
\* node of the tree at its path holds the result, as does the editor, the
\* nodes at other paths are as they were, the confirmation is appended and
\* nothing is left pending
AppliesPendingOnce ==
    /\ pendingCode # Null
    /\ selectedFile # Null
    /\ LET applied == AppliedOnce(nodes[selectedFile[1]].content, pendingCode[1])
       IN  /\ \E k \in 1..Len(files) :
                  /\ nodes[files[k]].path = nodes[selectedFile[1]].path
                  /\ nodes'[files[k]].content = applied
           /\ \A id \in 1..Len(nodes) :
                  nodes[id].path # nodes[selectedFile[1]].path
                      => nodes'[id].content = nodes[id].content
           /\ editContent' = applied
    /\ Len(nodes') = Len(nodes)
    /\ files' = files
    /\ chatMessages' = Append(chatMessages, Msg("assistant", CodeUpdatedText))
    /\ pendingCode' = Null

C29_AlwaysAllowEndsReviews ==
    [][ /\ AlwaysAllow => /\ AppliesPendingOnce
                          /\ autoEditMode' = "always"
                          /\ storedMode' = Some("always")
        /\ \A k \in 1..Len(inflight), reply \in Replies :
              ( /\ IsReplyStep(k, reply)
                /\ HasCandidate(reply)
                /\ selectedFile # Null
                /\ autoEditMode = "always"
                /\ storedMode = Some("always") )
              => ( /\ pendingCode' = Null
                   /\ editContent' =
                          AppliedOnce(nodes[selectedFile[1]].content, CandidateOf[reply][1]) )
      ]_vars

\* C30: an edit becomes pending only in a step taken while the permission
\* mode is ask.
C30_PendingOnlyEnteredInAskMode ==
    [][ (pendingCode' # Null /\ pendingCode' # pendingCode)
            => autoEditMode = "ask"
      ]_vars

\* C31: an edit is pending only while a file is selected, and a reply that
\* brings a candidate while no file is selected leaves no edit pending and
\* every FileNode as it was.
C31_NoPendingWithoutSelection ==
    [][ /\ pendingCode # Null => selectedFile # Null
        /\ pendingCode' # Null => selectedFile' # Null
        /\ \A k \in 1..Len(inflight), reply \in Replies :
              ( /\ IsReplyStep(k, reply)
                /\ HasCandidate(reply)
                /\ selectedFile = Null )
              => ( /\ pendingCode' = Null
                   /\ nodes' = nodes
                   /\ files' = files )
      ]_vars

\* a folder is on display, no file is selected, the reply with a full text
\* was the last thing said and nothing is pending
C31_Witness ==
    /\ selectedFile = Null
    /\ files # <<>>
    /\ pendingCode = Null
    /\ inflight = <<>>
    /\ Len(chatMessages) = 2
    /\ chatMessages[2] = Msg("assistant", ReplyFull)

\* C32, as stated: every step leaves the conversation it found as a prefix
\* of the conversation it leaves.
C32_ConversationAppendOnly ==
    [][ IsPrefix(chatMessages, chatMessages') ]_vars

\* C32, amended: the Clear conversation button empties the conversation,
\* and every other step leaves the conversation it found as a prefix of the
\* conversation it leaves.
C32_AppendOnlyExceptClear ==
    [][ IF ClearChat
        THEN chatMessages' = <<>>
        ELSE IsPrefix(chatMessages, chatMessages')
      ]_vars

\* two messages were sent, the second is still in flight, and the
\* conversation holds that message alone: it was cleared and has grown again
C32_Witness ==
    /\ sends = 2
    /\ clicks > 0
    /\ inflight # <<>>
    /\ chatMessages = <<Msg("user", <<"h", "i">>)>>

\* C33: a session starts in the stored permission mode, or in ask when
\* nothing is stored; while a session is mounted the stored value equals its
\* mode after every step, toggles and Always Allow included; and a later
\* session starts in the mode the session before it ended with.
C33_ModePersistsAcrossSessions ==
    [][ /\ Mount => autoEditMode' = (IF storedMode = Null THEN "ask" ELSE storedMode[1])
        /\ session'.mounted => storedMode' = Some(autoEditMode')
        /\ (Mount /\ session.no > 0) => autoEditMode' = autoEditMode
      ]_vars

\* the second session has started in always, the mode the first one, which
\* sent a message, ended with
C33_Witness ==
    /\ session = [no |-> MaxSessions, mounted |-> TRUE]
    /\ autoEditMode = "always" /\ storedMode = Some("always")
    /\ sends = 1 /\ chatMessages = <<>> /\ files = <<>>

\* the three-rule greedy walk, on what is left of the two line sequences
RECURSIVE GreedyWalk(_, _)
GreedyWalk(old, new) ==
    IF old = <<>> /\ new = <<>> THEN <<>>
    ELSE IF old # <<>> /\ new # <<>> /\ Head(old) = Head(new)
    THEN <<DiffLine("unchanged", Head(old))>> \o GreedyWalk(Tail(old), Tail(new))
    ELSE IF new # <<>> /\ ~(\E k \in DOMAIN old : old[k] = Head(new))
    THEN <<DiffLine("added", Head(new))>> \o GreedyWalk(old, Tail(new))
    ELSE <<DiffLine("removed", Head(old))>> \o GreedyWalk(Tail(old), new)

\* C34: the diff computeDiff returns is the output of the three-rule greedy
\* walk over the lines of the two texts, and during the loop what has been
\* emitted so far followed by the walk over what is left of both sequences
\* is that output.
C34_DiffIsGreedyWalk ==
    /\ dpc = "done" => diff = GreedyWalk(SplitLines(oldText), SplitLines(newText))
    /\ dpc = "loop" =>
          diff \o GreedyWalk(SubSeq(oldLines, di + 1, Len(oldLines)),
                             SubSeq(newLines, dj + 1, Len(newLines)))
              = GreedyWalk(SplitLines(oldText), SplitLines(newText))

\* a finished diff in which a line that occurs earlier in the old text, but
\* not from the old cursor on, was added before an old line was removed
C34_Witness ==
    /\ dpc = "done"
    /\ \E k \in DOMAIN diff :
          /\ diff[k].type = "added"
          /\ \E m \in 1..(k - 1) : diff[m] = DiffLine("unchanged", diff[k].content)
          /\ \E m \in DOMAIN diff : m > k /\ diff[m].type = "removed"

\* C35: every iteration of the loop of computeDiff emits exactly one
\* DiffLine and moves at least one cursor forward and none back; at most
\* |old lines| + |new lines| lines are ever emitted; the function returns
\* only with both cursors at the ends; and every call returns.
C35_DiffTerminates ==
    /\ [][ (dpc = "loop" /\ DiffLoopCond) =>
              /\ Len(diff') = Len(diff) + 1
              /\ di' >= di /\ dj' >= dj
              /\ di' + dj' > di + dj ]_vars
    /\ [](Len(diff) <= Len(oldLines) + Len(newLines))
    /\ [](dpc = "done" => di = Len(oldLines) /\ dj = Len(newLines))
    /\ <>(dpc = "done")

\* a call that took as many iterations as both texts have lines together
C35_Witness ==
    /\ dpc = "done"
    /\ Len(oldLines) = MaxLines /\ Len(newLines) = MaxLines
    /\ Len(diff) = Len(oldLines) + Len(newLines)

\* the content stored in the tree at a path
TreeContent(tree, path) ==
    IF TargetNode(tree, path) = Null THEN Null
    ELSE Some(nodes[TargetNode(tree, path)[1]].content)

\* lines 813 and 943: the content applyEdit patches and the review diff is
\* computed against
CurrentFileContent == Some(nodes[selectedFile[1]].content)

\* C36: while a candidate is under review, the content the review diff is
\* computed against, which is the content Apply will patch, is the content
\* stored in the current tree at the selected file's path.
C36_ReviewedContentIsTreeContent ==
    (pendingCode # Null /\ selectedFile # Null) =>
        CurrentFileContent = TreeContent(files, nodes[selectedFile[1]].path)

\* C37: starting from a non-negative balance, the credit balance is never
\* negative.
C37_CreditsNeverNegative == credits >= 0

\* C38: right after every apply, automatic or approved, the editor buffer
\* equals the content of the FileNode of the currently selected file, and
\* right after every file click it equals the clicked file's content.
C38_EditorShowsSelectedFile ==
    [][ (IsApplyStep \/ FileClick) =>
            /\ selectedFile' # Null
            /\ editContent' = nodes'[selectedFile'[1]].content
      ]_vars

C40_ScrapeButtonComesBack == (request = "done") ~> ~isScrapingActive

=============================================================================
